---- MODULE Spec2Model ----
(***************************************************************************)
(* A model of parts of coba:                                               *)
(*   - UniversalBenchmark.evaluate (coba/benchmarks.py), the loop that     *)
(*     threads learners through the interactions of the simulations;       *)
(*   - ConcurrentCacher over a DiskCacher (coba/contexts/cachers.py),      *)
(*     the per-key reader/writer protocol used by several processes;       *)
(*   - the functions of coba/random.py over the module's generator;        *)
(*   - UniversalBenchmark._batch_sizes called on its own;                  *)
(*   - one NullCacher, MemoryCacher or DiskCacher called in sequence;      *)
(*   - OpenmlSource.read (coba/environments/openml.py) over such a cacher; *)
(*   - the simulations of coba/simulations.py and their reward calls;      *)
(*   - the loop of _batch_sizes over a batch size function;                *)
(*   - the semaphore around the requests of an http source;                *)
(*   - QueueSource.read and DiskSource (coba/pipes/sources.py);            *)
(*   - the multiprocess runner, a filter applied by several workers.       *)
(* SpecEval runs the loop, SpecRerun runs it twice on the same benchmark,  *)
(* SpecLazy runs it on one simulation more, SpecOrder on full schedules,   *)
(* SpecCache runs the cacher's processes, SpecRandom calls the random      *)
(* functions, SpecBatch computes schedules, SpecStore calls one cacher,    *)
(* SpecOpenml calls read, SpecSim builds a simulation and asks rewards,    *)
(* SpecLoop steps the batch size loop, SpecSema runs the requests,         *)
(* SpecQueue and SpecSource read the sources, SpecRun runs the workers.    *)
(***************************************************************************)
EXTENDS Integers, Sequences, FiniteSets, TLC

\* ------------------------------------------------------------------ bounds
NumSims         == 1
NumLearners     == 2
MaxInteractions == 3
MaxBatchSize    == 2
MaxSchedule     == 2
NumProcs        == 2
PayloadLen      == 2
MaxSeed         == 1
Grid            == 2
MaxDraws        == 2
MaxSeqLen       == 2
MaxInt          == 3
MaxNeg          == 1
MaxCount        == 30
MaxLength       == 22
MaxLines        == 2
MaxOps          == 3
MaxRows         == 2
MaxActions      == 2
MaxLabels       == 2
MaxRequests     == 3
Capacity        == 2
MaxPuts         == 4
MaxReads        == 2
MaxWork         == 3

\* Python's None, and the unset key of a new groupby
None == -1

VARIABLES
    \* ---- UniversalBenchmark.evaluate
    policy,            \* the batching policy the benchmark was built with
    nsims,             \* len(self._simulations)
    epc,               \* position of evaluate in its code
    simulation_index,  \* enumerate(self._simulations), 0-based
    isLazy,            \* isinstance(simulation, LazySimulation)
    loaded,            \* the lazy simulations currently loaded
    interaction_count, \* len(simulation.interactions)
    batch_indexes,     \* what is left of the iterator of line 204
    learner_index,     \* enumerate(learner_factories), 0-based
    zpos,              \* how many interactions the zip of line 208 has taken
    currkey,           \* groupby: key of the last element pulled
    tgtkey,            \* groupby: key of the group being served
    currvalue,         \* groupby: the element pulled and not yet yielded
    keys,              \* the keys of the batch being collected
    nrewards,          \* len(rewards) of the batch, None before line 228
    nlearned,          \* how many learn calls of the batch returned
    results,           \* the list evaluate returns
    logged,            \* what ExecutionContext.Logger.log received
    calls,             \* history: the calls made for the current simulation
    rerun,             \* which call of evaluate this is, what the first call's
                       \* simulations and learners did, and what it returned
    lcalls,            \* history: the calls of load and unload, when recorded
    \* ---- ConcurrentCacher over a DiskCacher, one key
    cdict,             \* ConcurrentCacher._dict, shared by the processes
    disk,              \* the cache directory: key -> the lines of its file
    waiting,           \* the processes blocked in self._cond.wait()
    op,                \* the operation each process calls
    pc,                \* position of each process in its code
    stack,             \* where each process returns to
    gen,               \* state of the stream each process was handed
    stream,            \* the lines each process has read from its stream
    outcome,           \* how each process's operation ended
    rheld,             \* history: read locks acquired and not released
    wheld,             \* history: write locks acquired and not released
    hist,              \* history: what happened to the entry, and which
                       \* get_put found it at its unlocked test
    \* ---- coba/random.py
    seed,              \* _random._seed, the state of the module's generator
    draws,             \* history: how many numbers _next has produced
    rcall,             \* history: the last call of a random function
    since,             \* history: the seed the module's generator was made
                       \* with, and the numbers it has produced since
    \* ---- UniversalBenchmark._batch_sizes
    bcall,             \* history: the last call of _batch_sizes
    \* ---- one NullCacher, MemoryCacher or DiskCacher, called in sequence
    ckind,             \* which cacher it is
    files,             \* what it holds: self._cache, or the cache directory
    scall,             \* history: the last call, and how the one before ended
    nops,              \* history: how many calls were made
    \* ---- OpenmlSource.read over one of these cachers
    oread,             \* history: the last call of read
    \* ---- coba/simulations.py
    scon,              \* history: the last construction of a simulation
    \* ---- the loop of _batch_sizes for a batch_size function
    floop,             \* the locals of the loop of lines 278-289
    \* ---- OpenmlSource._http_request under the source semaphore
    sema,              \* the semaphore's permits, and each request's position
    \* ---- QueueSource.read
    qsrc,              \* the queue, the reader's position and what it yielded
    \* ---- DiskSource
    dsrc,              \* the source's fields, and each read's position
    \* ---- the multiprocess runner
    mpr                \* the work items, the workers, and the parent's log

evalVars == <<policy, epc, simulation_index, isLazy, loaded, interaction_count,
              batch_indexes, learner_index, zpos, currkey, tgtkey, currvalue,
              keys, nrewards, nlearned, results, logged, calls, rerun, nsims,
              lcalls>>

cacheVars == <<cdict, disk, waiting, op, pc, stack, gen, stream, outcome,
               rheld, wheld, hist>>

randVars == <<seed, draws, rcall, since>>

batchVars == <<bcall>>

storeVars == <<ckind, files, scall, nops>>

omlVars == <<oread>>

simVars == <<scon>>

loopVars == <<floop>>

semaVars == <<sema>>

queueVars == <<qsrc>>

sourceVars == <<dsrc>>

runVars == <<mpr>>

pipeVars == <<simVars, loopVars, semaVars, queueVars, sourceVars, runVars>>

vars == <<evalVars, cacheVars, randVars, batchVars, storeVars, omlVars, pipeVars>>

\* what the steps of one part leave alone
notEval   == <<cacheVars, randVars, batchVars, storeVars, omlVars, pipeVars>>
notCache  == <<evalVars, randVars, batchVars, storeVars, omlVars, pipeVars>>
notRandom == <<evalVars, cacheVars, batchVars, storeVars, omlVars, pipeVars>>
notBatch  == <<evalVars, cacheVars, randVars, storeVars, omlVars, pipeVars>>
notStore  == <<evalVars, cacheVars, randVars, batchVars, pipeVars>>
notPipe   == <<evalVars, cacheVars, randVars, batchVars, storeVars, omlVars>>


\* ------------------------------------------------------- pure functions

Min(a, b) == IF a <= b THEN a ELSE b

\* ------------------------------------------- Python's float arithmetic
\* A float is an IEEE-754 double: <<mant, exp>> stands for mant * 2^exp, where
\* mant is a sequence of at most FloatPrecision bits, lowest bit first, whose
\* highest bit is 1; <<<<>>, 0>> is 0.0. Every operation rounds its exact
\* result to the nearest float, ties to the even mantissa.

FloatPrecision == 53

FloatZero == <<<<>>, 0>>

Zeros(k) == [j \in 1 .. k |-> 0]

RECURSIVE IntBits(_)
IntBits(x) == IF x <= 0 THEN <<>> ELSE <<x % 2>> \o IntBits(x \div 2)

RECURSIVE BitsInt(_)
BitsInt(bits) == IF bits = <<>> THEN 0 ELSE Head(bits) + (2 * BitsInt(Tail(bits)))

\* bits without its zeros at the high end
Trim(bits) ==
    LET ones == { j \in 1 .. Len(bits) : bits[j] = 1 }
    IN  IF ones = {} THEN <<>>
        ELSE SubSeq(bits, 1, CHOOSE j \in ones : \A i \in ones : i <= j)

\* the arithmetic on bit sequences works on Limb bits at a time
Limb == 8

Take(bits, c) == SubSeq(bits, 1, Min(c, Len(bits)))
Drop(bits, c) == SubSeq(bits, c + 1, Len(bits))
Pad(bits, c)  == bits \o Zeros(c - Len(bits))

RECURSIVE AddLimbs(_, _, _)
\* x + y + carry
AddLimbs(x, y, carry) ==
    IF x = <<>> /\ y = <<>> THEN IntBits(carry)
    ELSE LET t == BitsInt(Take(x, Limb)) + BitsInt(Take(y, Limb)) + carry
         IN  Pad(IntBits(t % (2 ^ Limb)), Limb)
                \o AddLimbs(Drop(x, Limb), Drop(y, Limb), t \div (2 ^ Limb))

AddBits(x, y) == Trim(AddLimbs(x, y, 0))

RECURSIVE MulLimbs(_, _, _)
\* x * k + carry
MulLimbs(x, k, carry) ==
    IF x = <<>> THEN IntBits(carry)
    ELSE LET t == (BitsInt(Take(x, Limb)) * k) + carry
         IN  Pad(IntBits(t % (2 ^ Limb)), Limb)
                \o MulLimbs(Drop(x, Limb), k, t \div (2 ^ Limb))

MulBits(x, k) == Trim(MulLimbs(x, k, 0))

\* the float nearest to bits * 2^exp
FloatRound(bits, exp) ==
    IF Len(bits) <= FloatPrecision THEN <<bits, exp>>
    ELSE LET d      == Len(bits) - FloatPrecision
             kept   == SubSeq(bits, d + 1, Len(bits))
             sticky == \E j \in 1 .. (d - 1) : bits[j] = 1
             up     == bits[d] = 1 /\ (sticky \/ kept[1] = 1)
             r      == IF up THEN AddBits(kept, <<1>>) ELSE kept
         IN  IF Len(r) > FloatPrecision THEN <<Tail(r), exp + d + 1>>
             ELSE <<r, exp + d>>

RECURSIVE FractionLimb(_, _, _)
\* c steps of the long division of rem by y: <<quotient bits, remainder>>
FractionLimb(rem, y, c) ==
    IF c = 0 \/ rem = 0 THEN <<Zeros(c), rem>>
    ELSE LET rest == FractionLimb((2 * rem) % y, y, c - 1)
         IN  <<rest[1] \o <<(2 * rem) \div y>>, rest[2]>>

RECURSIVE FractionBits(_, _, _)
\* the first k bits of rem / y after the binary point, lowest first, under a
\* last bit that tells whether anything is left after them
FractionBits(rem, y, k) ==
    IF rem = 0 THEN Zeros(k + 1)
    ELSE IF k = 0 THEN <<1>>
    ELSE LET c == Min(k, Limb)
             q == FractionLimb(rem, y, c)
         IN  FractionBits(q[2], y, k - c) \o q[1]

\* x / y for integers x >= 0 and y > 0 (true division)
FloatDiv(x, y) ==
    IF x = 0 THEN FloatZero
    ELSE LET k == FloatPrecision + 2 + Len(IntBits(y))
         IN  FloatRound(Trim(FractionBits(x % y, y, k) \o IntBits(x \div y)),
                        0 - (k + 1))

\* f * k for an integer k >= 0
FloatMulInt(f, k) ==
    IF f[1] = <<>> \/ k = 0 THEN FloatZero
    ELSE FloatRound(MulBits(f[1], k), f[2])

\* i + f for an integer i >= 0
FloatAddInt(i, f) ==
    LET e == Min(f[2], 0)
    IN  FloatRound(AddBits(Zeros(f[2] - e) \o f[1], Zeros(0 - e) \o IntBits(i)), e)

\* int(f) for f >= 0
FloatInt(f) ==
    IF f[2] >= 0 THEN BitsInt(Zeros(f[2]) \o f[1])
    ELSE IF 0 - f[2] >= Len(f[1]) THEN 0
    ELSE BitsInt(SubSeq(f[1], 1 - f[2], Len(f[1])))


RECURSIVE Sum(_)
Sum(s) == IF s = <<>> THEN 0 ELSE Head(s) + Sum(Tail(s))

RECURSIVE Repeat(_, _)
\* itertools.repeat(x, n) as a list
Repeat(x, n) == IF n <= 0 THEN <<>> ELSE <<x>> \o Repeat(x, n - 1)

RECURSIVE FlattenFrom(_, _)
FlattenFrom(sizes, i) ==
    IF i > Len(sizes) THEN <<>>
    ELSE Repeat(i - 1, sizes[i]) \o FlattenFrom(sizes, i + 1)

\* line 204: (b for i, s in enumerate(batch_sizes) for b in repeat(i, s))
BatchIndexesReversed(sizes) ==
    [k \in 1 .. Len(FlattenFrom(sizes, 1)) |->
        FlattenFrom(sizes, 1)[Len(FlattenFrom(sizes, 1)) + 1 - k]]
BatchIndexes(sizes) == FlattenFrom(sizes, 1)

\* int(float(n_interactions) / d), lines 263 and 273
IntQuotient(n, d) == FloatInt(FloatDiv(n, d))

\* line 268: int(i * spacing), with spacing = float(batch_count) / remainder
SlotIndex(K, r, i) == FloatInt(FloatMulInt(FloatDiv(K, r), i))

\* _batch_sizes with batch_count = K: the slots that receive an extra unit
ExtraSlots(K, r) == { SlotIndex(K, r, i) : i \in 0 .. (r - 1) }

RECURSIVE AddExtras(_, _, _, _)
\* lines 266-268: for i in range(remainder): batches[int(i*spacing)] += 1
AddExtras(batches, K, r, i) ==
    IF i >= r THEN batches
    ELSE AddExtras([batches EXCEPT ![SlotIndex(K, r, i) + 1] = @ + 1], K, r, i + 1)

CountSizes(K, n) == AddExtras([j \in 1 .. K |-> IntQuotient(n, K)], K, n % K, 0)

\* ConstSizes with a fault: a last, partly filled batch is scheduled
ConstSizesRoundedUp(S, n) == [j \in 1 .. ((n + S - 1) \div S) |-> S]

\* _batch_sizes with a constant batch_size = S
ConstSizes(S, n) == [j \in 1 .. IntQuotient(n, S) |-> S]

\* _batch_sizes raises (ZeroDivisionError) for a count or a size of 0
BatchSizesRaises(p, n) ==
    \/ p.kind = "count" /\ p.count = 0
    \/ p.kind = "size"  /\ p.size = 0

\* a callable batch_size, given by its first values and constant afterwards
FnValue(f, i) == IF i < Len(f) THEN f[i + 1] ELSE f[Len(f)]

RECURSIVE FnLoop(_, _, _, _)
\* the while loop of lines 284-287
FnLoop(f, i, remaining_interactions, batch_sizes) ==
    IF remaining_interactions > FnValue(f, i)
    THEN FnLoop(f, i + 1, remaining_interactions - FnValue(f, i),
                Append(batch_sizes, FnValue(f, i)))
    ELSE batch_sizes

\* _batch_sizes with a callable batch_size
FnSizes(f, n) == FnLoop(f, 0, n, <<>>)

\* UniversalBenchmark._batch_sizes
BatchSizes(p, n) ==
    CASE p.kind = "count" -> CountSizes(p.count, n)
      [] p.kind = "size"  -> ConstSizes(p.size, n)
      [] p.kind = "fn"    -> FnSizes(p.fn, n)
      [] OTHER            -> p.sizes

\* the callables tried: they end with a positive value, so the loop ends
FnTables ==
    { f \in UNION { [1 .. k -> 0 .. MaxBatchSize] : k \in 1 .. MaxSchedule } :
        f[Len(f)] >= 1 }

Policies ==
    [kind : {"count"}, count : 0 .. MaxSchedule]
    \cup [kind : {"size"}, size : 0 .. MaxBatchSize]
    \cup [kind : {"sizes"},
          sizes : UNION { [1 .. k -> 0 .. MaxBatchSize] : k \in 0 .. MaxSchedule }]
    \cup [kind : {"fn"}, fn : FnTables]

\* next() of the zip of line 208: takes a batch index first, then an interaction
ZipEnds(bidx, pos, n) == bidx = <<>> \/ pos >= n
ZipLeaves(bidx)       == IF bidx = <<>> THEN bidx ELSE Tail(bidx)


\* ------------------------------------------- UniversalBenchmark.evaluate

\* what a simulation does when loaded and asked for its interactions, and
\* whether a call of a learner factory, choose, rewards or learn returns
SimulationDoes == [lazy : BOOLEAN, loads : BOOLEAN, n : 0 .. MaxInteractions, ok : {TRUE}]
CallDoes       == [lazy : {FALSE}, loads : {FALSE}, n : {0}, ok : BOOLEAN]

\* the second call of evaluate is given the simulations and learner factories
\* of the first: each of them does what it did then
Given(does) ==
    IF rerun.run = 2 /\ rerun.pos < Len(rerun.did)
    THEN does \cap {rerun.did[rerun.pos + 1]}
    ELSE does

Taken(d) ==
    CASE rerun.run = 1 -> [rerun EXCEPT !.did = Append(@, d)]
      [] rerun.run = 2 -> [rerun EXCEPT !.pos = @ + 1]
      [] OTHER         -> rerun

\* results with a fault: the list of an earlier call of evaluate is kept
KeptResults == results

\* line 191, results = [], when evaluate is called again
NewResults == <<>>

\* the calls of load and unload are recorded, or are not
LazyLog   == [on |-> TRUE, calls |-> <<>>]
NoLazyLog == [on |-> FALSE, calls |-> <<>>]

\* the only call of evaluate, and the first call of two
OnlyCall  == [run |-> 0, did |-> <<>>, pos |-> 0, returned |-> <<>>]
FirstCall == [run |-> 1, did |-> <<>>, pos |-> 0, returned |-> <<>>]

Call(what, b, k, ok) ==
    [op |-> what, sim |-> simulation_index, learner |-> learner_index,
     batch |-> b, key |-> k, ok |-> ok]

EvalLocals ==
    /\ policy \in Policies
    /\ epc = "simulation"
    /\ simulation_index = 0
    /\ isLazy = FALSE
    /\ loaded = {}
    /\ interaction_count = 0
    /\ batch_indexes = <<>>
    /\ learner_index = 0
    /\ zpos = 0
    /\ currkey = None
    /\ tgtkey = None
    /\ currvalue = None
    /\ keys = <<>>
    /\ nrewards = None
    /\ nlearned = 0
    /\ results = <<>>
    /\ logged = <<>>
    /\ calls = <<>>

EvalInit == EvalLocals /\ nsims = NumSims /\ rerun = OnlyCall /\ lcalls = NoLazyLog

RerunInit == EvalLocals /\ nsims = NumSims /\ rerun = FirstCall /\ lcalls = NoLazyLog

\* a benchmark of one simulation more, with batches of one size
LazyInit ==
    /\ EvalLocals
    /\ policy.kind = "size"
    /\ nsims = NumSims + 1
    /\ rerun = OnlyCall
    /\ lcalls = LazyLog

\* a benchmark of one simulation more, with the batch sizes given as a list
\* of MaxSchedule batches of the two largest sizes
OrderInit ==
    /\ EvalLocals
    /\ policy.kind = "sizes"
    /\ policy.sizes \in [1 .. MaxSchedule -> {MaxBatchSize - 1, MaxBatchSize}]
    /\ nsims = NumSims + 1
    /\ rerun = OnlyCall
    /\ lcalls = NoLazyLog

\* a call of load or unload on the simulation of this round, lines 197 and 249
LazyCall(what, ok) ==
    IF lcalls.on
    THEN [lcalls EXCEPT !.calls = Append(@, [op |-> what, sim |-> simulation_index,
                                             ok |-> ok])]
    ELSE lcalls

\* unload with a fault: the simulation stays in memory
UnloadedKept(l, i) == l

\* LazySimulation.unload, simulations.py lines 298-303: self._simulation = None
Unloaded(l, i) == l \ {i}

\* lines 193-204: the next simulation is loaded and its schedule computed;
\* load() may raise, median([]) raises for no interactions, _batch_sizes may raise
BeginSimulation ==
    /\ UNCHANGED notEval
    /\ epc = "simulation"
    /\ simulation_index < nsims
    /\ \E d \in Given(SimulationDoes) :
        LET lazy   == d.lazy
            loads  == d.loads
            n      == d.n
            raises == (lazy /\ ~loads) \/ n = 0 \/ BatchSizesRaises(policy, n)
            sizes  == IF raises THEN <<>> ELSE BatchSizes(policy, n)
        IN  /\ rerun' = Taken(d)
            /\ isLazy' = lazy
            /\ loaded' = IF lazy /\ loads THEN loaded \cup {simulation_index} ELSE loaded
            /\ lcalls' = IF lazy THEN LazyCall("load", loads) ELSE lcalls
            /\ interaction_count' = IF raises THEN 0 ELSE n
            /\ batch_indexes' = BatchIndexes(sizes)
            /\ epc' = IF raises THEN "except" ELSE "learner"
    /\ learner_index' = 0
    /\ calls' = <<>>
    /\ UNCHANGED <<policy, nsims, simulation_index, zpos, currkey, tgtkey, currvalue,
                   keys, nrewards, nlearned, results, logged>>

\* lines 206-210: the next learner factory, a new zip and a new groupby;
\* after the last factory the try block ends
BeginLearner ==
    /\ UNCHANGED notEval
    /\ epc = "learner"
    /\ IF learner_index >= NumLearners
       THEN /\ epc' = "unload"
            /\ UNCHANGED <<calls, rerun>>
       ELSE \E d \in Given(CallDoes) :
            /\ rerun' = Taken(d)
            /\ calls' = Append(calls, Call("factory", None, None, d.ok))
            /\ epc' = IF d.ok THEN "group" ELSE "except"
    /\ zpos' = 0
    /\ currkey' = None
    /\ tgtkey' = None
    /\ currvalue' = None
    /\ UNCHANGED <<policy, nsims, lcalls, simulation_index, isLazy, loaded, interaction_count,
                   batch_indexes, learner_index, keys, nrewards, nlearned,
                   results, logged>>

\* itertools.groupby's step: one next() of the zip
GroupbyStep ==
    /\ batch_indexes' = ZipLeaves(batch_indexes)
    /\ IF ZipEnds(batch_indexes, zpos, interaction_count)
       THEN UNCHANGED <<zpos, currkey, currvalue>>
       ELSE /\ currkey' = Head(batch_indexes)
            /\ currvalue' = zpos
            /\ zpos' = zpos + 1

\* line 212: groupby's next(): skip to an element whose key is not the group's
NextGroup ==
    /\ UNCHANGED <<notEval, rerun>>
    /\ epc = "group"
    /\ IF currkey # None /\ (tgtkey = None \/ tgtkey # currkey)
       THEN /\ tgtkey' = currkey
            /\ keys' = <<>>
            /\ nrewards' = None
            /\ nlearned' = 0
            /\ epc' = "choose"
            /\ UNCHANGED <<batch_indexes, zpos, currkey, currvalue, learner_index>>
       ELSE /\ GroupbyStep
            /\ IF ZipEnds(batch_indexes, zpos, interaction_count)
               THEN /\ learner_index' = learner_index + 1
                    /\ epc' = "learner"
               ELSE /\ epc' = "group"
                    /\ UNCHANGED learner_index
            /\ UNCHANGED <<tgtkey, keys, nrewards, nlearned>>
    /\ UNCHANGED <<policy, nsims, lcalls, simulation_index, isLazy, loaded, interaction_count,
                   results, logged, calls>>

\* line 219: the group's iterator pulls an element when it holds none
GrouperPull ==
    /\ UNCHANGED <<notEval, rerun>>
    /\ epc = "choose"
    /\ currvalue = None
    /\ GroupbyStep
    /\ epc' = IF ZipEnds(batch_indexes, zpos, interaction_count)
              THEN "rewards" ELSE "choose"
    /\ UNCHANGED <<policy, nsims, lcalls, simulation_index, isLazy, loaded, interaction_count,
                   learner_index, tgtkey, keys, nrewards, nlearned, results,
                   logged, calls>>

\* lines 219-226: the group's iterator yields the element it holds when it
\* belongs to the group, and the learner chooses for it
Choose ==
    /\ UNCHANGED notEval
    /\ epc = "choose"
    /\ currvalue # None
    /\ IF currkey # tgtkey
       THEN /\ epc' = "rewards"
            /\ UNCHANGED <<currvalue, keys, calls, rerun>>
       ELSE \E d \in Given(CallDoes) :
            /\ rerun' = Taken(d)
            /\ calls' = Append(calls, Call("choose", tgtkey, currvalue, d.ok))
            /\ currvalue' = None
            /\ keys' = IF d.ok THEN Append(keys, currvalue) ELSE keys
            /\ epc' = IF d.ok THEN "choose" ELSE "except"
    /\ UNCHANGED <<policy, nsims, lcalls, simulation_index, isLazy, loaded, interaction_count,
                   batch_indexes, learner_index, zpos, currkey, tgtkey,
                   nrewards, nlearned, results, logged>>

\* the simulation's reward method, called as rewards at line 228
\* (MemorySimulation.reward: one reward per choice, or a KeyError)
RewardCount(choices) == Len(choices)

\* lines 228-230: the batch's rewards, stats and the learner's name
Rewards ==
    /\ UNCHANGED notEval
    /\ epc = "rewards"
    /\ \E d \in Given(CallDoes) :
        /\ rerun' = Taken(d)
        /\ calls' = Append(calls, Call("rewards", tgtkey, None, d.ok))
        /\ nrewards' = IF d.ok THEN RewardCount(keys) ELSE None
        /\ epc' = IF d.ok THEN "learn" ELSE "except"
    /\ UNCHANGED <<policy, nsims, lcalls, simulation_index, isLazy, loaded, interaction_count,
                   batch_indexes, learner_index, zpos, currkey, tgtkey,
                   currvalue, keys, nlearned, results, logged>>

\* LearnLoopDone with a fault: the loop stops after the batch's first observation
LearnLoopStopsEarly == nlearned >= Min(1, nrewards)

\* line 232: the zip of keys, contexts, actions and rewards is exhausted
LearnLoopDone == nlearned >= Min(Len(keys), nrewards)

\* NextLearnKey with a fault: the observations are learned last to first
NextLearnKeyReversed == keys[Len(keys) - nlearned]

\* line 232: the observation the next learn call receives
NextLearnKey == keys[nlearned + 1]

\* lines 232-233: one learn call, or the end of the loop
Learn ==
    /\ UNCHANGED notEval
    /\ epc = "learn"
    /\ IF LearnLoopDone
       THEN /\ epc' = "result"
            /\ UNCHANGED <<calls, nlearned, rerun>>
       ELSE \E d \in Given(CallDoes) :
            /\ rerun' = Taken(d)
            /\ calls' = Append(calls, Call("learn", tgtkey, NextLearnKey, d.ok))
            /\ nlearned' = IF d.ok THEN nlearned + 1 ELSE nlearned
            /\ epc' = IF d.ok THEN "learn" ELSE "except"
    /\ UNCHANGED <<policy, nsims, lcalls, simulation_index, isLazy, loaded, interaction_count,
                   batch_indexes, learner_index, zpos, currkey, tgtkey,
                   currvalue, keys, nrewards, results, logged>>

\* lines 235-243
AppendResult ==
    /\ UNCHANGED <<notEval, rerun>>
    /\ epc = "result"
    /\ results' = Append(results,
            [learner_name |-> learner_index, simulation_index |-> simulation_index,
             batch_index |-> tgtkey, interaction_count |-> interaction_count,
             n |-> nrewards])
    /\ epc' = "group"
    /\ UNCHANGED <<policy, nsims, lcalls, simulation_index, isLazy, loaded, interaction_count,
                   batch_indexes, learner_index, zpos, currkey, tgtkey,
                   currvalue, keys, nrewards, nlearned, logged, calls>>

\* lines 245-246
LogException ==
    /\ UNCHANGED <<notEval, rerun>>
    /\ epc = "except"
    /\ logged' = Append(logged, simulation_index)
    /\ epc' = "unload"
    /\ UNCHANGED <<policy, nsims, lcalls, simulation_index, isLazy, loaded, interaction_count,
                   batch_indexes, learner_index, zpos, currkey, tgtkey,
                   currvalue, keys, nrewards, nlearned, results, calls>>

\* lines 248-249 and the next round of the loop of line 193
Unload ==
    /\ UNCHANGED <<notEval, rerun>>
    /\ epc = "unload"
    /\ loaded' = IF isLazy THEN Unloaded(loaded, simulation_index) ELSE loaded
    /\ lcalls' = IF isLazy THEN LazyCall("unload", TRUE) ELSE lcalls
    /\ simulation_index' = simulation_index + 1
    /\ epc' = "simulation"
    /\ UNCHANGED <<policy, nsims, isLazy, interaction_count, batch_indexes,
                   learner_index, zpos, currkey, tgtkey, currvalue, keys,
                   nrewards, nlearned, results, logged, calls>>

\* line 251
Return ==
    /\ UNCHANGED <<notEval, rerun>>
    /\ epc = "simulation"
    /\ simulation_index >= nsims
    /\ epc' = "done"
    /\ UNCHANGED <<policy, nsims, lcalls, simulation_index, isLazy, loaded, interaction_count,
                   batch_indexes, learner_index, zpos, currkey, tgtkey,
                   currvalue, keys, nrewards, nlearned, results, logged,
                   calls>>

\* evaluate is called again on the same benchmark with the same learner
\* factories (lines 175-191); in between, a LambdaSource may have been
\* constructed, which seeds the module's generator (simulations.py, line 167)
Rerun ==
    /\ UNCHANGED <<cacheVars, batchVars, storeVars, omlVars, pipeVars, draws, rcall, since>>
    /\ epc = "done"
    /\ rerun.run = 1
    /\ rerun' = [rerun EXCEPT !.run = 2, !.returned = results]
    /\ seed' \in {seed} \cup (0 .. MaxSeed)
    /\ results' = NewResults
    /\ epc' = "simulation"
    /\ simulation_index' = 0
    /\ learner_index' = 0
    /\ UNCHANGED <<policy, nsims, lcalls, isLazy, loaded, interaction_count, batch_indexes,
                   zpos, currkey, tgtkey, currvalue, keys, nrewards, nlearned,
                   logged, calls>>

EvalNext ==
    \/ BeginSimulation
    \/ BeginLearner
    \/ NextGroup
    \/ GrouperPull
    \/ Choose
    \/ Rewards
    \/ Learn
    \/ AppendResult
    \/ LogException
    \/ Unload
    \/ Return

RerunNext ==
    \/ EvalNext
    \/ Rerun

\* ------------------------------------ ConcurrentCacher over a DiskCacher

Key   == "k"
Procs == 1 .. NumProcs
Ops   == {"get", "put", "rmv", "get_put"}

\* the lines process p puts, or its getter produces; 0 wrote before the run
Payload(p) == [i \in 1 .. PayloadLen |-> p]

NoEntries == [x \in {} |-> 0]
Put(d, key, v) == [x \in DOMAIN d \cup {key} |-> IF x = key THEN v ELSE d[x]]
Del(d, key)    == [x \in DOMAIN d \ {key} |-> d[x]]

\* DiskCacher.__contains__
Contains(d, key) == key \in DOMAIN d

\* CanRead with a fault: a reader is let in while a writer is inside
CanReadDuringWrite(d, key) == key \notin DOMAIN d \/ d[key] >= -1

\* SwitchedToRead with a fault: the downgrade frees the key instead of
\* keeping one read lock
SwitchedToIdle(d, key) == [x \in DOMAIN d \cup {key} |-> IF x = key THEN 0 ELSE d[x]]

\* _acquired_read_lock: the test of line 220 and the assignment of line 221
CanRead(d, key)    == key \notin DOMAIN d \/ d[key] >= 0
ReadLocked(d, key) == Put(d, key, (IF key \in DOMAIN d THEN d[key] ELSE 0) + 1)

\* CanWrite with a fault: a writer is let in while streams hold read locks
CanWriteDuringRead(d, key) == key \notin DOMAIN d \/ d[key] >= 0

\* _acquired_write_lock: the test of line 241 and the assignment of line 242
CanWrite(d, key)    == key \notin DOMAIN d \/ d[key] = 0
WriteLocked(d, key) == Put(d, key, -1)

\* lines 234, 255 and 259
ReadReleased(d, key)   == Put(d, key, d[key] - 1)
SwitchedToRead(d, key) == Put(d, key, 1)
WriteReleased(d, key)  == Put(d, key, 0)

CacheInit ==
    /\ cdict = NoEntries
    /\ disk \in {NoEntries, Put(NoEntries, Key, Payload(0))}
    /\ waiting = {}
    /\ op = [p \in Procs |-> "none"]
    /\ pc = [p \in Procs |-> "start"]
    /\ stack = [p \in Procs |-> <<>>]
    /\ gen = [p \in Procs |-> "none"]
    /\ stream = [p \in Procs |-> <<>>]
    /\ outcome = [p \in Procs |-> "none"]
    /\ rheld = [p \in Procs |-> 0]
    /\ wheld = {}
    /\ hist = [initial |-> Contains(disk, Key), writers |-> {}, removed |-> FALSE,
               failed |-> {}, found |-> {}, getters |-> {}]

\* an exception leaves the operation; no frame of the cachers handles it
Raise(p) ==
    /\ pc' = [pc EXCEPT ![p] = "done"]
    /\ stack' = [stack EXCEPT ![p] = <<>>]
    /\ outcome' = [outcome EXCEPT ![p] = "error"]

\* a frame returns to its caller
Pop(p) ==
    /\ pc' = [pc EXCEPT ![p] = Head(stack[p])]
    /\ stack' = [stack EXCEPT ![p] = Tail(stack[p])]

\* a process calls get (270), put (281), rmv (287) or get_put (293)
Begin(p) ==
    /\ UNCHANGED notCache
    /\ pc[p] = "start"
    /\ \E o \in Ops :
        /\ op' = [op EXCEPT ![p] = o]
        /\ pc' = [pc EXCEPT ![p] =
                    CASE o = "get" -> "ar_try"
                      [] o = "get_put" -> "gp_contains"
                      [] OTHER -> "aw_try"]
        /\ stack' = [stack EXCEPT ![p] =
                    CASE o = "get" -> <<"consume">>
                      [] o = "put" -> <<"dp_check", "rw_set", "done">>
                      [] o = "rmv" -> <<"rmv_call", "rw_set", "done">>
                      [] OTHER -> <<>>]
    /\ UNCHANGED <<cdict, disk, waiting, gen, stream, outcome, rheld, wheld, hist>>

\* _acquired_read_lock inside _acquire_read_lock, lines 218-229; with the lock
\* held get wraps the generator DiskCacher.get returns (lines 273-276)
AcquiredReadLock(p) ==
    /\ UNCHANGED notCache
    /\ pc[p] = "ar_try"
    /\ IF CanRead(cdict, Key)
       THEN /\ cdict' = ReadLocked(cdict, Key)
            /\ rheld' = [rheld EXCEPT ![p] = @ + 1]
            /\ gen' = [gen EXCEPT ![p] = "fresh"]
            /\ Pop(p)
       ELSE /\ pc' = [pc EXCEPT ![p] = "ar_cond"]
            /\ UNCHANGED <<cdict, rheld, gen, stack>>
    /\ UNCHANGED <<disk, waiting, op, stream, outcome, wheld, hist>>

\* _acquired_write_lock inside _acquire_write_lock, lines 239-250
AcquiredWriteLock(p) ==
    /\ UNCHANGED notCache
    /\ pc[p] = "aw_try"
    /\ IF CanWrite(cdict, Key)
       THEN /\ cdict' = WriteLocked(cdict, Key)
            /\ wheld' = wheld \cup {p}
            /\ Pop(p)
       ELSE /\ pc' = [pc EXCEPT ![p] = "aw_cond"]
            /\ UNCHANGED <<cdict, wheld, stack>>
    /\ UNCHANGED <<disk, waiting, op, gen, stream, outcome, rheld, hist>>

\* lines 228-229 and 249-250: with self._cond: self._cond.wait()
CondWait(p) ==
    /\ UNCHANGED notCache
    /\ pc[p] \in {"ar_cond", "aw_cond"}
    /\ pc' = [pc EXCEPT ![p] = IF pc[p] = "ar_cond" THEN "ar_wait" ELSE "aw_wait"]
    /\ waiting' = waiting \cup {p}
    /\ UNCHANGED <<cdict, disk, op, stack, gen, stream, outcome, rheld, wheld, hist>>

\* _release_read_lock, lines 233-234
ReleaseReadLock(p) ==
    /\ UNCHANGED notCache
    /\ pc[p] = "rr_dec"
    /\ cdict' = ReadReleased(cdict, Key)
    /\ rheld' = [rheld EXCEPT ![p] = @ - 1]
    /\ pc' = [pc EXCEPT ![p] = "notify"]
    /\ UNCHANGED <<disk, waiting, op, stack, gen, stream, outcome, wheld, hist>>

\* _release_write_lock, lines 258-259
ReleaseWriteLock(p) ==
    /\ UNCHANGED notCache
    /\ pc[p] = "rw_set"
    /\ cdict' = WriteReleased(cdict, Key)
    /\ wheld' = wheld \ {p}
    /\ pc' = [pc EXCEPT ![p] = "notify"]
    /\ UNCHANGED <<disk, waiting, op, stack, gen, stream, outcome, rheld, hist>>

\* lines 236-237 and 261-262: with self._cond: self._cond.notify_all();
\* the processes in wait() return to the test of their loop
NotifyAll(p) ==
    /\ UNCHANGED notCache
    /\ pc[p] = "notify"
    /\ pc' = [q \in Procs |->
                IF q = p THEN Head(stack[p])
                ELSE IF q \in waiting
                     THEN (IF pc[q] = "ar_wait" THEN "ar_try" ELSE "aw_try")
                     ELSE pc[q]]
    /\ stack' = [stack EXCEPT ![p] = Tail(stack[p])]
    /\ waiting' = {}
    /\ outcome' = [outcome EXCEPT ![p] = IF Head(stack[p]) = "done" THEN "ok" ELSE @]
    /\ UNCHANGED <<cdict, disk, op, gen, stream, rheld, wheld, hist>>

\* DiskCacher.put, lines 153-156
DiskPutCheck(p) ==
    /\ UNCHANGED notCache
    /\ pc[p] = "dp_check"
    /\ IF Contains(disk, Key)
       THEN Pop(p)
       ELSE /\ pc' = [pc EXCEPT ![p] = "dp_open"]
            /\ UNCHANGED stack
    /\ UNCHANGED <<cdict, disk, waiting, op, gen, stream, outcome, rheld, wheld, hist>>

\* DiskCacher.put, line 160: gzip.open creates the file, or raises
DiskPutOpen(p) ==
    /\ UNCHANGED notCache
    /\ pc[p] = "dp_open"
    /\ \/ /\ disk' = Put(disk, Key, <<>>)
          /\ hist' = [hist EXCEPT !.writers = @ \cup {p}]
          /\ pc' = [pc EXCEPT ![p] = "dp_write"]
          /\ UNCHANGED <<stack, outcome>>
       \/ /\ Raise(p)
          /\ hist' = [hist EXCEPT !.failed = @ \cup {p}]
          /\ UNCHANGED disk
    /\ UNCHANGED <<cdict, waiting, op, gen, stream, rheld, wheld>>

\* DiskCacher.put, lines 161-165: one line written, the file closed after the
\* last one; when the value or the write raises the entry is removed
DiskPutWrite(p) ==
    /\ UNCHANGED notCache
    /\ pc[p] = "dp_write"
    /\ IF Contains(disk, Key) /\ Len(disk[Key]) < PayloadLen
       THEN \/ /\ disk' = Put(disk, Key, Append(disk[Key], Payload(p)[Len(disk[Key]) + 1]))
               /\ UNCHANGED <<pc, stack, outcome, hist>>
            \/ /\ disk' = Del(disk, Key)
               /\ hist' = [hist EXCEPT !.failed = @ \cup {p}]
               /\ Raise(p)
       ELSE /\ Pop(p)
            /\ UNCHANGED <<disk, outcome, hist>>
    /\ UNCHANGED <<cdict, waiting, op, gen, stream, rheld, wheld>>

\* DiskCacher.rmv, line 170 (_cache_path may raise)
DiskRmv(p) ==
    /\ UNCHANGED notCache
    /\ pc[p] = "rmv_call"
    /\ \/ /\ disk' = Del(disk, Key)
          /\ hist' = [hist EXCEPT !.removed = TRUE]
          /\ Pop(p)
          /\ UNCHANGED outcome
       \/ /\ Raise(p)
          /\ hist' = [hist EXCEPT !.failed = @ \cup {p}]
          /\ UNCHANGED disk
    /\ UNCHANGED <<cdict, waiting, op, gen, stream, rheld, wheld>>

\* get_put, lines 301-304: the containment test made without a lock
GetPutContains(p) ==
    /\ UNCHANGED notCache
    /\ pc[p] = "gp_contains"
    /\ IF Contains(disk, Key)
       THEN /\ pc' = [pc EXCEPT ![p] = "ar_try"]
            /\ stack' = [stack EXCEPT ![p] = <<"consume">>]
            /\ hist' = [hist EXCEPT !.found = @ \cup {p}]
       ELSE /\ pc' = [pc EXCEPT ![p] = "aw_try"]
            /\ stack' = [stack EXCEPT ![p] = <<"gp_305">>]
            /\ UNCHANGED hist
    /\ UNCHANGED <<cdict, disk, waiting, op, gen, stream, outcome, rheld, wheld>>

\* get_put, line 305: the containment test made with the write lock
GetPutRecheck(p) ==
    /\ UNCHANGED notCache
    /\ pc[p] = "gp_305"
    /\ IF ~Contains(disk, Key)
       THEN /\ pc' = [pc EXCEPT ![p] = "dgp_check"]
            /\ stack' = [stack EXCEPT ![p] = <<"gp_308">>]
       ELSE /\ pc' = [pc EXCEPT ![p] = "gp_316"]
            /\ UNCHANGED stack
    /\ UNCHANGED <<cdict, disk, waiting, op, gen, stream, outcome, rheld, wheld, hist>>

\* DiskCacher.get_put, lines 178-179: getter() is called (it may raise) and
\* its value put
DiskGetPut(p) ==
    /\ UNCHANGED notCache
    /\ pc[p] = "dgp_check"
    /\ IF ~Contains(disk, Key)
       THEN \/ /\ pc' = [pc EXCEPT ![p] = "dp_check"]
               /\ stack' = [stack EXCEPT ![p] = <<"dgp_get">> \o @]
               /\ hist' = [hist EXCEPT !.getters = @ \cup {p}]
               /\ UNCHANGED outcome
            \/ /\ Raise(p)
               /\ hist' = [hist EXCEPT !.failed = @ \cup {p}, !.getters = @ \cup {p}]
       ELSE /\ pc' = [pc EXCEPT ![p] = "dgp_get"]
            /\ UNCHANGED <<stack, outcome, hist>>
    /\ UNCHANGED <<cdict, disk, waiting, op, gen, stream, rheld, wheld>>

\* DiskCacher.get_put, line 181: the generator of DiskCacher.get is returned
DiskGetPutReturn(p) ==
    /\ UNCHANGED notCache
    /\ pc[p] = "dgp_get"
    /\ gen' = [gen EXCEPT ![p] = "fresh"]
    /\ Pop(p)
    /\ UNCHANGED <<cdict, disk, waiting, op, stream, outcome, rheld, wheld, hist>>

\* get_put, lines 308-311: the downgrade; the stream is returned with its lock
SwitchAfterPut(p) ==
    /\ UNCHANGED notCache
    /\ pc[p] = "gp_308"
    /\ cdict' = SwitchedToRead(cdict, Key)
    /\ wheld' = wheld \ {p}
    /\ rheld' = [rheld EXCEPT ![p] = @ + 1]
    /\ pc' = [pc EXCEPT ![p] = "consume"]
    /\ UNCHANGED <<disk, waiting, op, stack, gen, stream, outcome, hist>>

\* get_put, lines 316-320: the downgrade, then get, then one read lock released
SwitchThenGet(p) ==
    /\ UNCHANGED notCache
    /\ pc[p] = "gp_316"
    /\ cdict' = SwitchedToRead(cdict, Key)
    /\ wheld' = wheld \ {p}
    /\ rheld' = [rheld EXCEPT ![p] = @ + 1]
    /\ pc' = [pc EXCEPT ![p] = "ar_try"]
    /\ stack' = [stack EXCEPT ![p] = <<"rr_dec", "consume">>]
    /\ UNCHANGED <<disk, waiting, op, gen, stream, outcome, hist>>

\* the caller takes the next item of its stream: _generator_release (265-268)
\* over DiskCacher.get (140-145); release() runs when the stream ends
ConsumeNext(p) ==
    /\ UNCHANGED notCache
    /\ pc[p] = "consume"
    /\ IF gen[p] = "fresh" /\ Contains(disk, Key)
       THEN /\ gen' = [gen EXCEPT ![p] = "open"]
            /\ UNCHANGED <<pc, stack, stream>>
       ELSE IF gen[p] = "open" /\ Contains(disk, Key)
                               /\ Len(stream[p]) < Len(disk[Key])
       THEN /\ stream' = [stream EXCEPT ![p] = Append(@, disk[Key][Len(@) + 1])]
            /\ UNCHANGED <<pc, stack, gen>>
       ELSE /\ gen' = [gen EXCEPT ![p] = "ended"]
            /\ pc' = [pc EXCEPT ![p] = "rr_dec"]
            /\ stack' = [stack EXCEPT ![p] = <<"done">>]
            /\ UNCHANGED stream
    /\ UNCHANGED <<cdict, disk, waiting, op, outcome, rheld, wheld, hist>>

\* the file read raises while the stream is consumed (lines 146-149, 265)
ConsumeRaises(p) ==
    /\ UNCHANGED notCache
    /\ pc[p] = "consume"
    /\ Contains(disk, Key)
    /\ gen' = [gen EXCEPT ![p] = "raised"]
    /\ Raise(p)
    /\ UNCHANGED <<cdict, disk, waiting, op, stream, rheld, wheld, hist>>

\* the caller drops or closes the stream before its end: the generator gets
\* GeneratorExit at its yield of line 266, or was never started
Abandon(p) ==
    /\ UNCHANGED notCache
    /\ pc[p] = "consume"
    /\ gen' = [gen EXCEPT ![p] = "dropped"]
    /\ pc' = [pc EXCEPT ![p] = "done"]
    /\ outcome' = [outcome EXCEPT ![p] = "abandoned"]
    /\ UNCHANGED <<cdict, disk, waiting, op, stack, stream, rheld, wheld, hist>>

CacheStep(p) ==
    \/ Begin(p)
    \/ AcquiredReadLock(p)
    \/ AcquiredWriteLock(p)
    \/ CondWait(p)
    \/ ReleaseReadLock(p)
    \/ ReleaseWriteLock(p)
    \/ NotifyAll(p)
    \/ DiskPutCheck(p)
    \/ DiskPutOpen(p)
    \/ DiskPutWrite(p)
    \/ DiskRmv(p)
    \/ GetPutContains(p)
    \/ GetPutRecheck(p)
    \/ DiskGetPut(p)
    \/ DiskGetPutReturn(p)
    \/ SwitchAfterPut(p)
    \/ SwitchThenGet(p)
    \/ ConsumeNext(p)
    \/ ConsumeRaises(p)
    \/ Abandon(p)

CacheNext == \E p \in Procs : CacheStep(p)

\* ------------------------------------ UniversalBenchmark._batch_sizes

\* the benchmarks whose schedules are computed: as Policies, with more batches
BatchPolicies ==
    [kind : {"count"}, count : 0 .. MaxCount]
    \cup { p \in Policies : p.kind # "count" }

\* a benchmark with some policy, and the interaction count it is asked about
BatchInit ==
    \E p \in BatchPolicies, n \in 0 .. MaxLength :
        bcall = [policy |-> p, n |-> n, called |-> FALSE, raised |-> FALSE, out |-> <<>>]

\* the call self._batch_sizes(n_interactions), line 203
BatchSizesCall ==
    /\ UNCHANGED notBatch
    /\ ~bcall.called
    /\ bcall' = [bcall EXCEPT
                   !.called = TRUE,
                   !.raised = BatchSizesRaises(bcall.policy, bcall.n),
                   !.out    = IF BatchSizesRaises(bcall.policy, bcall.n) THEN <<>>
                              ELSE BatchSizes(bcall.policy, bcall.n)]

BatchNext == BatchSizesCall

\* ------------------------------------------------------- coba/random.py

\* Random.__init__, lines 43-45
self_m == 1073741824
self_a == 116646453
self_c == 9

RECURSIVE MulMod(_, _)
\* (x * y) % self_m, for x below self_m, without a product wider than 31 bits
MulMod(x, y) ==
    IF x = 0 \/ y = 0 THEN 0
    ELSE (((2 * MulMod(x, y \div 2)) % self_m) + ((y % 2) * x)) % self_m

\* NextSeed with a fault: the increment self._c is left out
NextSeedNoIncrement(s) == MulMod(s % self_m, self_a)

\* _next, line 105: (self._a * self._seed + self._c) & (self._m - 1); on
\* Python's unbounded integers the mask is the remainder modulo self._m,
\* which is not negative for a negative seed either
NextSeed(s) == (MulMod(s % self_m, self_a) + self_c) % self_m

RECURSIVE Inverse(_, _)
\* the inverse of self_a modulo self_m (self_a is odd), by doubling precision
Inverse(x, rounds) ==
    IF rounds = 0 THEN x
    ELSE Inverse(MulMod(x, (2 + self_m - MulMod(x, self_a)) % self_m), rounds - 1)

\* the state from which _next produces number
PrevSeed(number) == MulMod((number + self_m - self_c) % self_m, Inverse(1, 5))

\* randoms, line 62: number / self._m_minus_1
Uniform(number) == FloatDiv(number, self_m - 1)

\* randint, line 154: min(int((b-a+1) * random()), b-1) + a, for random() = u
RandintAt(lo, hi, u) == Min(FloatInt(FloatMulInt(u, hi - lo + 1)), hi - 1) + lo

\* randint when _next produces number
RandintOf(lo, hi, number) == RandintAt(lo, hi, Uniform(number))

\* seq[i] with Python's indexing: a negative index counts from the end
IndexRaises(s, i) == i >= Len(s) \/ i < 0 - Len(s)
IndexOf(s, i)     == IF i >= 0 THEN s[i + 1] ELSE s[Len(s) + i + 1]

RECURSIVE NextN(_, _)
\* _next(n), lines 102-109: the n numbers produced from state s
NextN(s, n) == IF n <= 0 THEN <<>> ELSE <<NextSeed(s)>> \o NextN(NextSeed(s), n - 1)

Swap(l, i, j) == [l EXCEPT ![i] = l[j], ![j] = l[i]]

RECURSIVE ShuffleAt(_, _, _)
\* Random.shuffle, lines 78-81, from index i on (0-based as in the code), for
\* the randoms r
ShuffleAt(l, r, i) ==
    IF i >= Len(l) THEN l
    ELSE LET n == Len(l)
             j == Min(FloatInt(FloatAddInt(i, FloatMulInt(r[i + 1], n - i))), n - 1)
         IN  ShuffleAt(Swap(l, i + 1, j + 1), r, i + 1)

\* Random.randoms, line 62, for the numbers of _next
Uniforms(numbers) == [j \in 1 .. Len(numbers) |-> Uniform(numbers[j])]

\* Random.shuffle when _next produces the numbers r
ShuffleFrom(l, r, i) == ShuffleAt(l, Uniforms(r), i)

\* the generator states tried: small seeds, and the seeds whose next number
\* is an end or a grid point of the range of _next
Numbers  == {0, self_m - 1} \cup { i * ((self_m - 1) \div Grid) : i \in 0 .. Grid }
StdSeeds == (0 .. MaxSeed) \cup { PrevSeed(x) : x \in Numbers }

\* the seeds a caller may give: any integer, also negative or beyond self._m
Seeds == StdSeeds \cup { 0 - k : k \in 1 .. MaxSeed }
                  \cup { self_m + k : k \in 0 .. MaxSeed }

\* the items of the sequences given to choice and shuffle
Items == {1, 2}
Seqs  == UNION { [1 .. k -> Items] : k \in 0 .. MaxSeqLen }

NoCall == [op |-> "none", a |-> 0, b |-> 0, seq |-> <<>>, after |-> <<>>,
           before |-> 0, number |-> 0, raised |-> FALSE, out |-> 0, outseq |-> <<>>]

\* Random.__init__ with a fault: the generator in use is kept
SeededBefore(s) == seed

\* Random.__init__, line 50: self._seed = seed
Seeded(s) == s

\* _random = Random(), line 113: a seed from the standard library, line 50
RandomInit ==
    /\ seed \in StdSeeds
    /\ draws = 0
    /\ rcall = NoCall
    /\ since = [s |-> seed, n |-> 0]

Drawn(k) == [since EXCEPT !.n = @ + k]

\* seed(s), lines 115-127: the module's generator is replaced
SeedCall ==
    /\ UNCHANGED notRandom
    /\ \E s \in Seeds :
        /\ seed' = Seeded(s)
        /\ rcall' = [NoCall EXCEPT !.op = "seed", !.a = s, !.before = seed]
        /\ since' = [s |-> s, n |-> 0]
    /\ UNCHANGED draws

\* randoms(n), lines 134-144 and 52-62; _next raises for n <= 0 (lines 97-98)
RandomsCall ==
    /\ UNCHANGED notRandom
    /\ \E n \in 0 .. (MaxDraws - draws) :
        IF n = 0
        THEN /\ rcall' = [NoCall EXCEPT !.op = "randoms", !.before = seed,
                                        !.raised = TRUE]
             /\ UNCHANGED <<seed, draws, since>>
        ELSE LET numbers == SubSeq(NextN(seed, MaxDraws - draws), 1, n)
             IN  /\ seed' = numbers[n]
                 /\ draws' = draws + n
                 /\ since' = Drawn(n)
                 /\ rcall' = [NoCall EXCEPT !.op = "randoms", !.a = n,
                                            !.before = seed, !.number = numbers[n],
                                            !.seq = numbers,
                                            !.outseq = Uniforms(numbers)]

\* randint(a, b), lines 146-154, for a <= b
RandintCall ==
    /\ UNCHANGED notRandom
    /\ draws < MaxDraws
    /\ LET number == NextSeed(seed)
           u      == Uniform(number)
       IN  \E lo \in (0 - MaxNeg) .. MaxInt : \E hi \in lo .. MaxInt :
            /\ seed' = number
            /\ rcall' = [NoCall EXCEPT !.op = "randint", !.a = lo, !.b = hi,
                                       !.before = seed, !.number = number,
                                       !.out = RandintAt(lo, hi, u)]
    /\ draws' = draws + 1
    /\ since' = Drawn(1)

\* choice(seq), lines 156-163
ChoiceCall ==
    /\ UNCHANGED notRandom
    /\ draws < MaxDraws
    /\ LET number == NextSeed(seed)
           u      == Uniform(number)
       IN  \E s \in Seqs :
            LET i == RandintAt(0, Len(s) - 1, u)
            IN  /\ seed' = number
                /\ rcall' = [NoCall EXCEPT !.op = "choice", !.seq = s, !.after = s,
                                           !.before = seed, !.number = number,
                                           !.raised = IndexRaises(s, i),
                                           !.out = IF IndexRaises(s, i) THEN 0
                                                   ELSE IndexOf(s, i)]
    /\ draws' = draws + 1
    /\ since' = Drawn(1)

\* shuffle(seq), lines 165-175 and 64-83; _next raises for an empty sequence
\* (lines 97-98) before anything is drawn
ShuffleCall ==
    /\ UNCHANGED notRandom
    /\ LET numbers == NextN(seed, MaxDraws - draws)
           us      == Uniforms(numbers)
       IN  \E s \in Seqs :
            /\ draws + Len(s) <= MaxDraws
            /\ IF Len(s) = 0
               THEN /\ rcall' = [NoCall EXCEPT !.op = "shuffle", !.before = seed,
                                               !.raised = TRUE]
                    /\ UNCHANGED <<seed, draws, since>>
               ELSE /\ seed' = numbers[Len(s)]
                    /\ draws' = draws + Len(s)
                    /\ since' = Drawn(Len(s))
                    /\ rcall' = [NoCall EXCEPT
                                    !.op = "shuffle", !.seq = s, !.after = s,
                                    !.before = seed, !.number = numbers[1],
                                    !.outseq = ShuffleAt(s, SubSeq(us, 1, Len(s)), 0)]

\* LambdaSource.__init__, simulations.py lines 160-180: the module's generator
\* is seeded (line 167; seed(None) takes a seed from the standard library),
\* then the caller's context, action_set and reward functions are called,
\* which may draw from the module
LambdaSourceInit ==
    /\ UNCHANGED notRandom
    /\ \E s \in Seeds, k \in 0 .. (MaxDraws - draws) :
        LET numbers == NextN(Seeded(s), k)
        IN  /\ seed' = IF k = 0 THEN Seeded(s) ELSE numbers[k]
            /\ draws' = draws + k
            /\ since' = [s |-> s, n |-> k]
            /\ rcall' = [NoCall EXCEPT !.op = "source", !.a = s, !.b = k,
                                       !.before = seed]

RandomNext ==
    \/ SeedCall
    \/ RandomsCall
    \/ RandintCall
    \/ ChoiceCall
    \/ ShuffleCall
    \/ LambdaSourceInit

\* ------------------------- coba/contexts/cachers.py, one cacher on its own

\* the bytes of b'\r\n' (lines 145 and 162) and a byte that is neither
CR      == 13
LF      == 10
LetterA == 97

\* the lines tried: with and without line ends, with a line end inside
Lines == { <<>>, <<LetterA>>, <<LetterA, CR, LF>>, <<LetterA, LF, LetterA>>,
           <<CR, LetterA, LF, CR>> }

\* k lines b'a'
Filler(k) == [j \in 1 .. k |-> <<LetterA>>]

\* the values tried: no line, or one of Lines followed by lines b'a'
LineSeqs == {<<>>} \cup { <<l>> \o Filler(k) : l \in Lines, k \in 0 .. (MaxLines - 1) }

\* a value is an iterable of lines; a failing one is a generator that raises
\* once its lines are taken
Values == [lines : LineSeqs, fails : BOOLEAN]

RECURSIVE Strip(_)
\* line.rstrip(b'\r\n'), lines 145 and 162: the bytes 13 and 10 at the end go
Strip(line) ==
    IF line # <<>> /\ line[Len(line)] \in {CR, LF}
    THEN Strip(SubSeq(line, 1, Len(line) - 1))
    ELSE line

StripAll(lines) == [j \in 1 .. Len(lines) |-> Strip(lines[j])]

RECURSIVE Written(_)
\* DiskCacher.put, lines 161-162: what the file holds once lines are written
Written(lines) ==
    IF lines = <<>> THEN <<>>
    ELSE Strip(Head(lines)) \o <<CR, LF>> \o Written(Tail(lines))

RECURSIVE FileLines(_)
\* for line in f, line 144: the file's bytes cut after each byte 10
FileLines(bytes) ==
    IF bytes = <<>> THEN <<>>
    ELSE IF \E i \in 1 .. Len(bytes) : bytes[i] = LF
         THEN LET i == CHOOSE i \in 1 .. Len(bytes) :
                          /\ bytes[i] = LF
                          /\ \A j \in 1 .. (i - 1) : bytes[j] # LF
              IN  <<SubSeq(bytes, 1, i)>> \o FileLines(SubSeq(bytes, i + 1, Len(bytes)))
         ELSE <<bytes>>

\* the kinds of cacher: NullCacher, MemoryCacher, DiskCacher with a cache
\* directory and DiskCacher() without one
CacherKinds == {"null", "memory", "disk", "nodir"}

TheKey    == "k"
CacheKeys == {TheKey, "descr", "feats", "csv", "arff", "tasks"}

\* what a cacher holds for a key: for MemoryCacher the value put, for
\* DiskCacher the bytes of the file, damaged or not
NoFile == [present |-> FALSE, data |-> <<>>, corrupt |-> FALSE]
File(d) == [present |-> TRUE, data |-> d, corrupt |-> FALSE]

\* __contains__, lines 72-73, 94-95 and 136-137
InCacher(kind, f, k) == kind \in {"memory", "disk"} /\ f[k].present

\* DiskCacher.rmv with a fault: the file is left where it is
RmvFileKept(f, k) == f

\* DiskCacher.rmv, line 170: the file is unlinked
RmvFile(f, k) == [f EXCEPT ![k] = NoFile]

\* what a stream does when it is consumed: the lines it yields and how it ends
Consumed(lines, raised) == [out |-> lines, raised |-> raised]

\* get, lines 75-76, 97-98 and 139-149, consumed to its end; a damaged file
\* fails to be read after `good` of its lines
GetOf(kind, f, k, good) ==
    CASE kind = "null"   -> Consumed(<<>>, "Exception")
      [] kind = "memory" -> IF f[k].present THEN Consumed(f[k].data, "none")
                            ELSE Consumed(<<>>, "KeyError")
      [] kind = "nodir"  -> Consumed(<<>>, "none")
      [] kind = "disk"   ->
            IF ~f[k].present THEN Consumed(<<>>, "none")
            ELSE LET lines == StripAll(FileLines(f[k].data))
                 IN  IF f[k].corrupt
                     THEN Consumed(SubSeq(lines, 1, good), "corrupt")
                     ELSE Consumed(lines, "none")

\* how many lines of a file may be read before the damage shows
Goods(kind, f, k) ==
    IF kind = "disk" /\ f[k].corrupt THEN 0 .. Len(FileLines(f[k].data)) ELSE {0}

\* put, lines 78-79, 100-101 and 151-165: the cache it leaves and how it ends
PutOf(kind, f, k, v) ==
    CASE kind = "null"   -> [files |-> f, raised |-> "none"]
      [] kind = "nodir"  -> [files |-> f, raised |-> "none"]
      [] kind = "memory" ->
            IF v.fails THEN [files |-> f, raised |-> "stream"]
            ELSE [files |-> [f EXCEPT ![k] = File(v.lines)], raised |-> "none"]
      [] kind = "disk"   ->
            IF f[k].present THEN [files |-> f, raised |-> "none"]
            ELSE LET written == [f EXCEPT ![k] = File(Written(v.lines))]
                 IN  IF v.fails
                     THEN [files |-> RmvFile(written, k), raised |-> "stream"]
                     ELSE [files |-> written, raised |-> "none"]

\* rmv, lines 81-82, 103-105 and 167-170: the cache it leaves and how it
\* ends; without a cache directory self._cache_dir/... of line 191 is
\* None/str, a TypeError
RmvOf(kind, f, k) ==
    CASE kind = "null"  -> [files |-> f, raised |-> "none"]
      [] kind = "nodir" -> [files |-> f, raised |-> "TypeError"]
      [] OTHER          -> [files |-> RmvFile(f, k), raised |-> "none"]

NoStoreCall == [op |-> "none", value |-> [lines |-> <<>>, fails |-> FALSE],
                out |-> <<>>, raised |-> "none", found |-> FALSE, getter |-> 0,
                was |-> NoFile, prev |-> "none", prevraised |-> "none"]

\* the call being made, after the call held in scall
StoreCall(name) ==
    [NoStoreCall EXCEPT !.op = name, !.was = files[TheKey], !.prev = scall.op,
                        !.prevraised = scall.raised]

\* no error is made to happen in read
NoFault == [key |-> "none", during |-> "none", kind |-> "none"]

\* read was not called
NoRead == [called |-> FALSE, fault |-> NoFault, raised |-> "none",
           reached |-> "none", atraise |-> [k \in CacheKeys |-> NoFile], n |-> 0]

StoreInit ==
    /\ ckind \in CacherKinds
    /\ files = [k \in CacheKeys |-> NoFile]
    /\ scall = NoStoreCall
    /\ nops = 0
    /\ oread = NoRead

\* key in cacher
ContainsCall ==
    /\ UNCHANGED <<notStore, oread>>
    /\ nops < MaxOps
    /\ nops' = nops + 1
    /\ scall' = [StoreCall("contains") EXCEPT !.found = InCacher(ckind, files, TheKey)]
    /\ UNCHANGED <<ckind, files>>

\* list(cacher.get(key))
GetCall ==
    /\ UNCHANGED <<notStore, oread>>
    /\ nops < MaxOps
    /\ nops' = nops + 1
    /\ \E good \in Goods(ckind, files, TheKey) :
        LET got == GetOf(ckind, files, TheKey, good)
        IN  scall' = [StoreCall("get") EXCEPT !.out = got.out, !.raised = got.raised]
    /\ UNCHANGED <<ckind, files>>

\* cacher.put(key, value)
PutCall ==
    /\ UNCHANGED <<notStore, oread>>
    /\ nops < MaxOps
    /\ nops' = nops + 1
    /\ \E v \in Values :
        LET put == PutOf(ckind, files, TheKey, v)
        IN  /\ files' = put.files
            /\ scall' = [StoreCall("put") EXCEPT !.value = v, !.raised = put.raised]
    /\ UNCHANGED ckind

\* cacher.rmv(key)
RmvCall ==
    /\ UNCHANGED <<notStore, oread>>
    /\ nops < MaxOps
    /\ nops' = nops + 1
    /\ LET rmv == RmvOf(ckind, files, TheKey)
       IN  /\ files' = rmv.files
           /\ scall' = [StoreCall("rmv") EXCEPT !.raised = rmv.raised]
    /\ UNCHANGED ckind

\* list(cacher.get_put(key, getter)), lines 84-85, 107-110 and 172-181, for
\* a getter that returns value
GetPutCall ==
    /\ UNCHANGED <<notStore, oread>>
    /\ nops < MaxOps
    /\ nops' = nops + 1
    /\ \E v \in Values, good \in Goods(ckind, files, TheKey) :
        IF ckind \in {"null", "nodir"}
        THEN /\ files' = files
             /\ scall' = [StoreCall("get_put") EXCEPT
                             !.value = v, !.getter = 1, !.out = v.lines,
                             !.raised = IF v.fails THEN "stream" ELSE "none"]
        ELSE IF InCacher(ckind, files, TheKey)
        THEN LET got == GetOf(ckind, files, TheKey, good)
             IN  /\ files' = files
                 /\ scall' = [StoreCall("get_put") EXCEPT
                                 !.value = v, !.out = got.out, !.raised = got.raised]
        ELSE LET put == PutOf(ckind, files, TheKey, v)
                 got == GetOf(ckind, put.files, TheKey, good)
             IN  /\ files' = put.files
                 /\ scall' = [StoreCall("get_put") EXCEPT
                                 !.value = v, !.getter = 1,
                                 !.out = IF put.raised = "none" THEN got.out ELSE <<>>,
                                 !.raised = IF put.raised = "none" THEN got.raised
                                            ELSE put.raised]
    /\ UNCHANGED ckind

\* the file of a key is damaged on the disk: gzip fails to read it
Damage ==
    /\ UNCHANGED <<notStore, oread>>
    /\ ckind = "disk"
    /\ files[TheKey].present /\ ~files[TheKey].corrupt
    /\ files' = [files EXCEPT ![TheKey].corrupt = TRUE]
    /\ UNCHANGED <<ckind, scall, nops>>

StoreNext ==
    \/ ContainsCall
    \/ GetCall
    \/ PutCall
    \/ RmvCall
    \/ GetPutCall
    \/ Damage

\* ----------------------- coba/environments/openml.py, OpenmlSource.read

\* self._cache_keys, lines 28-34
OpenmlKeys == {"descr", "feats", "csv", "arff", "tasks"}

\* what may be raised inside read: a user interrupt, an error coba knows,
\* and any other error
ErrorKinds == {"KeyboardInterrupt", "CobaException", "Exception"}

\* the entries read fetches and consumes before it returns, in order: lines
\* 51 and 56, and line 91 when the features name no target of the right type
Fetches(needTasks) ==
    IF needTasks THEN <<"descr", "feats", "tasks">> ELSE <<"descr", "feats">>

\* what an http request returns
Response == [lines |-> <<<<LetterA>>>>, fails |-> FALSE]

\* _get_data consumed, lines 142-143: get_put stores the response of the
\* request unless the key is in the cache
Fetched(kind, f, k) ==
    IF InCacher(kind, f, k) THEN f ELSE PutOf(kind, f, k, Response).files

\* an error of some kind raised while an entry is fetched (the request or
\* its stream fails) or after it was fetched (json.loads of lines 202, 209
\* and 237, the raise of lines 54 and 247, an interrupt)
Faults == {NoFault} \cup [key : {"descr", "feats", "tasks"},
                          during : {"fetch", "parse"}, kind : ErrorKinds]

RECURSIVE Fetching(_, _, _, _)
\* lines 48-111: the cache the body of the try leaves and the error it raises
Fetching(kind, f, ks, fault) ==
    IF ks = <<>> THEN [files |-> f, raised |-> "none"]
    ELSE LET k == Head(ks)
         IN  IF kind = "disk" /\ f[k].present /\ f[k].corrupt
             THEN [files |-> f, raised |-> "Exception"]
             ELSE IF fault.key = k /\ fault.during = "fetch" /\ ~InCacher(kind, f, k)
             THEN [files |-> f, raised |-> fault.kind]
             ELSE IF fault.key = k /\ fault.during = "parse"
             THEN [files |-> Fetched(kind, f, k), raised |-> fault.kind]
             ELSE Fetching(kind, Fetched(kind, f, k), Tail(ks), fault)

RECURSIVE Clearing(_, _, _)
\* lines 124-125: CobaContext.cacher.rmv(key) for each of the keys, up to
\* the first rmv that raises
Clearing(kind, f, ks) ==
    IF ks = {} THEN [files |-> f, raised |-> "none"]
    ELSE LET k   == CHOOSE x \in ks : TRUE
             rmv == RmvOf(kind, f, k)
         IN  IF rmv.raised # "none" THEN rmv
             ELSE Clearing(kind, rmv.files, ks \ {k})

\* the except clauses, lines 113-127: the cache they leave and the error
\* that reaches the caller of read
Handling(kind, f, e) ==
    IF e \in {"KeyboardInterrupt", "CobaException"}
    THEN [files |-> f, raised |-> e]
    ELSE LET cleared == Clearing(kind, f, OpenmlKeys)
         IN  IF cleared.raised # "none" THEN cleared
             ELSE [files |-> cleared.files, raised |-> e]

\* a cacher of any kind that holds some of the entries of the dataset
OpenmlInit ==
    /\ ckind \in CacherKinds
    /\ \E held \in SUBSET OpenmlKeys :
        files = [k \in CacheKeys |->
                    IF k \in held /\ ckind \in {"memory", "disk"}
                    THEN File(Response.lines) ELSE NoFile]
    /\ scall = NoStoreCall
    /\ nops = 0
    /\ oread = NoRead

\* OpenmlSource.read, lines 45-127
OpenmlRead ==
    /\ UNCHANGED <<notStore, scall, nops>>
    /\ oread.n < MaxOps
    /\ \E needTasks \in BOOLEAN, fault \in Faults :
        LET body == Fetching(ckind, files, Fetches(needTasks), fault)
            end  == IF body.raised = "none" THEN body
                    ELSE Handling(ckind, body.files, body.raised)
        IN  /\ files' = end.files
            /\ oread' = [called |-> TRUE, fault |-> fault, raised |-> body.raised,
                         reached |-> end.raised, atraise |-> body.files,
                         n |-> oread.n + 1]
    /\ UNCHANGED ckind

\* the file of an entry is damaged on the disk
OpenmlDamage ==
    /\ UNCHANGED <<notStore, scall, nops, oread>>
    /\ ckind = "disk"
    /\ \E k \in OpenmlKeys :
        /\ files[k].present /\ ~files[k].corrupt
        /\ files' = [files EXCEPT ![k].corrupt = TRUE]
    /\ UNCHANGED ckind

OpenmlNext ==
    \/ OpenmlRead
    \/ OpenmlDamage

\* ------------------------------------------------- coba/simulations.py

\* rewards, and the keys an interaction is given by hand
RewardValues == {0, 1}
Labels == 1 .. MaxLabels
HandKeys == 0 .. MaxRows - 1

RECURSIVE Flatten(_)
\* chain.from_iterable
Flatten(ss) == IF ss = <<>> THEN <<>> ELSE Head(ss) \o Flatten(Tail(ss))

\* range(n), as a sequence
RangeSeq(n) == [i \in 1 .. n |-> i - 1]

\* Interaction.__init__: the assertion on the actions, then the fields
InteractionAccepts(actions) == FALSE
InteractionRaises(actions) == actions = <<>>
Interaction(context, actions, key) ==
    [context |-> context, actions |-> actions, key |-> key]

\* the loop of LambdaSource.__init__ up to and without row n; the functions
\* context, action_set and reward are the tables they compute
LambdaRows(n, action_set, reward) ==
    [i \in 1 .. n |->
        [interaction |-> Interaction(i - 1, action_set[i], i - 1),
         reward_set  |-> [a \in 1 .. Len(action_set[i]) |-> reward[i][a]]]]

\* LambdaSource.__init__ followed by read: Interaction raises at the first
\* row whose action set is empty
LambdaSource(n, action_set, reward) ==
    IF \E i \in 1 .. n : InteractionRaises(action_set[i])
    THEN [raised |-> TRUE, interactions |-> <<>>, reward_sets |-> <<>>]
    ELSE [raised       |-> FALSE,
          interactions |-> [i \in 1 .. n |-> LambdaRows(n, action_set, reward)[i].interaction],
          reward_sets  |-> [i \in 1 .. n |-> LambdaRows(n, action_set, reward)[i].reward_set]]

\* the choices of line 264, in order
ChoicesOf(interactions) ==
    Flatten([p \in 1 .. Len(interactions) |->
                [a \in 1 .. Len(interactions[p].actions) |->
                    <<interactions[p].key, a - 1>>]])

\* dict(zip(ks, vs)): zip stops at the shorter, a later pair replaces an
\* earlier one with the same key
DictOfZip(ks, vs) ==
    LET n == Min(Len(ks), Len(vs)) IN
    [c \in { ks[i] : i \in 1 .. n } |->
        vs[CHOOSE i \in 1 .. n : ks[i] = c /\ \A j \in i + 1 .. n : ks[j] # c]]

\* MemorySimulation.__init__
MemoryRaises(interactions, reward_sets) == Len(interactions) # Len(reward_sets)
MemoryRewards(interactions, reward_sets) ==
    DictOfZip(ChoicesOf(interactions), Flatten(reward_sets))

\* MemorySimulation.reward: a choice that is no key of the dict raises KeyError
RewardRaises(rewards, choices) ==
    \E j \in 1 .. Len(choices) : choices[j] \notin DOMAIN rewards
Reward(rewards, choices) == [j \in 1 .. Len(choices) |-> rewards[choices[j]]]

\* the orders a list of distinct values can have
Orders(S) ==
    { s \in [1 .. Cardinality(S) -> S] : \A i, j \in 1 .. Cardinality(S) : s[i] = s[j] => i = j }

\* OneHotEncoder(fit).encode(xs): each x as the unit vector over fit
OneHot(fit, x) == [j \in 1 .. Len(fit) |-> IF fit[j] = x THEN 1 ELSE 0]
OneHotEncode(fit, xs) == [i \in 1 .. Len(xs) |-> OneHot(fit, xs[i])]

\* ClassificationSimulation.__init__ with list(set(labels)) in the order
\* label_set: lines 380, 382 and 383
ClassActions(label_set) == OneHotEncode(label_set, label_set)
ClassInteractions(nfeatures, label_set) ==
    [i \in 1 .. nfeatures |-> Interaction(i - 1, ClassActions(label_set), i - 1)]
ClassRewardsSwapped(label_set, labels) ==
    [i \in 1 .. Len(labels) |-> [j \in 1 .. Len(label_set) |-> 1 - OneHot(label_set, labels[i])[j]]]
ClassRewards(label_set, labels) == OneHotEncode(label_set, labels)

\* TakeSimulation.__init__
TakeInteractions(interactions, count) == Take(interactions, count)

\* the tables an action_set function and a reward function can compute
ActionSets(n) == [1 .. n -> { RangeSeq(k) : k \in 0 .. MaxActions }]
RewardTables(n) == [1 .. n -> [1 .. MaxActions -> RewardValues]]

\* interactions made one by one, with a key or with the default key 0, and
\* m reward sets that tell their position: set p holds 10 p + c at index c,
\* for each action index c of interaction p
HandInteractions(n) ==
    [1 .. n -> { Interaction(0, RangeSeq(k), key) : k \in 1 .. MaxActions, key \in HandKeys }]
HandRewardSets(interactions, m) ==
    [p \in 1 .. m |->
        [c \in 1 .. (IF p <= Len(interactions) THEN Len(interactions[p].actions) ELSE 1) |->
            10 * (p - 1) + (c - 1)]]

NoSim ==
    [raised |-> FALSE, interactions |-> <<>>, given |-> <<>>, reward_sets |-> <<>>,
     rewards |-> <<>>, labels |-> <<>>, label_set |-> <<>>, taken |-> None]

NoAsk == [choices |-> <<>>, raised |-> FALSE, out |-> <<>>]

SimInit == scon = [kind |-> "new", sim |-> NoSim, ask |-> NoAsk]

\* LambdaSimulation(n, context, action_set, reward).read()
LambdaSimulationRead ==
    /\ UNCHANGED <<notPipe, runVars, loopVars, semaVars, queueVars, sourceVars>>
    /\ scon.kind = "new"
    /\ \E n \in 0 .. MaxRows :
       \E action_set \in ActionSets(n), reward \in RewardTables(n) :
        LET src == LambdaSource(n, action_set, reward) IN
        scon' = [scon EXCEPT
                   !.kind = "lambda",
                   !.sim  = IF src.raised \/ MemoryRaises(src.interactions, src.reward_sets)
                            THEN [NoSim EXCEPT !.raised = TRUE]
                            ELSE [NoSim EXCEPT
                                    !.interactions = src.interactions,
                                    !.given        = src.interactions,
                                    !.reward_sets  = src.reward_sets,
                                    !.rewards      = MemoryRewards(src.interactions, src.reward_sets)]]

\* ClassificationSimulation(features, labels)
ClassificationSimulationInit ==
    /\ UNCHANGED <<notPipe, runVars, loopVars, semaVars, queueVars, sourceVars>>
    /\ scon.kind = "new"
    /\ \E nfeatures \in 0 .. MaxRows, nlabels \in 0 .. MaxRows :
       \E labels \in [1 .. nlabels -> Labels] :
       \E label_set \in Orders({ labels[i] : i \in 1 .. nlabels }) :
        LET interactions == ClassInteractions(nfeatures, label_set)
            rewards      == ClassRewards(label_set, labels)
        IN
        scon' = [scon EXCEPT
                   !.kind = "classification",
                   !.sim  = IF nfeatures # nlabels \/ MemoryRaises(interactions, rewards)
                            THEN [NoSim EXCEPT !.raised = TRUE]
                            ELSE [NoSim EXCEPT
                                    !.interactions = interactions,
                                    !.given        = interactions,
                                    !.reward_sets  = rewards,
                                    !.rewards      = MemoryRewards(interactions, rewards),
                                    !.labels       = labels,
                                    !.label_set    = label_set]]

\* MemorySimulation(interactions, reward_sets)
MemorySimulationInit ==
    /\ UNCHANGED <<notPipe, runVars, loopVars, semaVars, queueVars, sourceVars>>
    /\ scon.kind = "new"
    /\ \E n \in 0 .. MaxRows, m \in 0 .. MaxRows :
       \E interactions \in HandInteractions(n) :
        LET reward_sets == HandRewardSets(interactions, m) IN
        scon' = [scon EXCEPT
                   !.kind = "memory",
                   !.sim  = IF MemoryRaises(interactions, reward_sets)
                            THEN [NoSim EXCEPT !.raised = TRUE]
                            ELSE [NoSim EXCEPT
                                    !.interactions = interactions,
                                    !.given        = interactions,
                                    !.reward_sets  = reward_sets,
                                    !.rewards      = MemoryRewards(interactions, reward_sets)]]

\* TakeSimulation(count, simulation), once
TakeSimulationInit ==
    /\ UNCHANGED <<notPipe, runVars, loopVars, semaVars, queueVars, sourceVars>>
    /\ scon.kind \in {"lambda", "classification", "memory"}
    /\ ~scon.sim.raised
    /\ scon.sim.taken = None
    /\ scon.ask = NoAsk
    /\ \E count \in 0 .. MaxRows :
        scon' = [scon EXCEPT
                   !.sim.interactions = TakeInteractions(scon.sim.interactions, count),
                   !.sim.taken        = count]

\* the places of a simulation: an interaction and one of its action indexes
Places(interactions) ==
    { pl \in (1 .. Len(interactions)) \X (1 .. MaxActions) :
        pl[2] <= Len(interactions[pl[1]].actions) }

\* simulation.reward(choices) for one or two places of the simulation, each
\* given as (key, choice); a TakeSimulation hands the call on
RewardCall ==
    /\ UNCHANGED <<notPipe, runVars, loopVars, semaVars, queueVars, sourceVars>>
    /\ scon.kind \in {"lambda", "classification", "memory"}
    /\ ~scon.sim.raised
    /\ scon.ask = NoAsk
    /\ \E first \in Places(scon.sim.interactions) :
       \E rest \in {<<>>} \cup { <<pl>> : pl \in Places(scon.sim.interactions) } :
        LET places  == <<first>> \o rest
            choices == [j \in 1 .. Len(places) |->
                          <<scon.sim.interactions[places[j][1]].key, places[j][2] - 1>>]
        IN
        scon' = [scon EXCEPT
                   !.ask = [choices |-> places,
                            raised  |-> RewardRaises(scon.sim.rewards, choices),
                            out     |-> IF RewardRaises(scon.sim.rewards, choices)
                                        THEN <<>>
                                        ELSE Reward(scon.sim.rewards, choices)]]

SimNext ==
    \/ LambdaSimulationRead
    \/ ClassificationSimulationInit
    \/ MemorySimulationInit
    \/ TakeSimulationInit
    \/ RewardCall

\* ------------------- _batch_sizes for a callable batch_size, step by step

\* every callable tried, also those that end with 0
AllFnTables == UNION { [1 .. k -> 0 .. MaxBatchSize] : k \in 1 .. MaxSchedule }

\* how many batches a loop that ends can append: the values before the
\* table's last one, and then at most one batch per interaction
LoopCap == MaxSchedule + MaxInteractions

\* batch_sizes.append(x); of a list longer than any the loop returns only
\* the first LoopCap entries are kept
Appended(batch_sizes, x) ==
    IF Len(batch_sizes) < LoopCap THEN Append(batch_sizes, x) ELSE batch_sizes

\* next(batch_size_iter): the value for index i, and the index after it;
\* past the table's end the value stays and the index is not counted on
IterNext(f, i) == Min(i + 1, Len(f))

LoopInit ==
    \E f \in AllFnTables, n \in 0 .. MaxInteractions :
        floop = [fn |-> f, n |-> n, pos |-> "start", i |-> 0,
                 next_batch_size |-> None, remaining_interactions |-> None,
                 batch_sizes |-> <<>>]

\* lines 279-282
LoopStart ==
    /\ UNCHANGED <<notPipe, runVars, simVars, semaVars, queueVars, sourceVars>>
    /\ floop.pos = "start"
    /\ floop' = [floop EXCEPT
                   !.pos                    = "test",
                   !.next_batch_size        = FnValue(floop.fn, floop.i),
                   !.i                      = IterNext(floop.fn, floop.i),
                   !.remaining_interactions = floop.n,
                   !.batch_sizes            = <<>>]

\* the test of line 284, and the return of line 289
LoopTest ==
    /\ UNCHANGED <<notPipe, runVars, simVars, semaVars, queueVars, sourceVars>>
    /\ floop.pos = "test"
    /\ floop' = [floop EXCEPT
                   !.pos = IF floop.remaining_interactions > floop.next_batch_size
                           THEN "body" ELSE "returned"]

\* lines 285-287
LoopBody ==
    /\ UNCHANGED <<notPipe, runVars, simVars, semaVars, queueVars, sourceVars>>
    /\ floop.pos = "body"
    /\ floop' = [floop EXCEPT
                   !.pos                    = "test",
                   !.batch_sizes            = Appended(floop.batch_sizes, floop.next_batch_size),
                   !.remaining_interactions = floop.remaining_interactions - floop.next_batch_size,
                   !.next_batch_size        = FnValue(floop.fn, floop.i),
                   !.i                      = IterNext(floop.fn, floop.i)]

LoopNext ==
    \/ LoopStart
    \/ LoopTest
    \/ LoopBody

\* ------------- OpenmlSource._http_request under the source semaphore

Requests == 1 .. MaxRequests

\* the status codes told apart by lines 159-178, and one more
Statuses == {200, 404, 412, 500}

\* srcsema.acquire() and srcsema.release() on the count of free permits
Acquired(free)    == free - 1
Released(free)    == free + 1

\* a generator made by calling _http_request, its body not started
NewRequest == [pos |-> "new", left |-> 0, acquired |-> 0, released |-> 0]

\* CobaContext.store holds a semaphore of Capacity permits, or none
SemaInit ==
    \E on \in BOOLEAN :
        sema = [on |-> on, free |-> Capacity, req |-> [r \in Requests |-> NewRequest]]

\* the finally clause of lines 196-197, and the position the generator ends at
Finally(r, pos) ==
    sema' = [sema EXCEPT
               !.free = IF sema.on THEN Released(@) ELSE @,
               !.req[r].released = IF sema.on THEN @ + 1 ELSE @,
               !.req[r].pos = pos]

\* the first next() of the stream: lines 146-150; acquire returns once a
\* permit is free
HttpAcquire(r) ==
    /\ UNCHANGED <<notPipe, runVars, simVars, loopVars, queueVars, sourceVars>>
    /\ sema.req[r].pos = "new"
    /\ sema.on => sema.free > 0
    /\ sema' = [sema EXCEPT
                  !.free = IF sema.on THEN Acquired(@) ELSE @,
                  !.req[r].acquired = IF sema.on THEN @ + 1 ELSE @,
                  !.req[r].pos = IF sema.on THEN "pause" ELSE "try"]

\* line 154: time.sleep(1) returns
HttpPause(r) ==
    /\ UNCHANGED <<notPipe, runVars, simVars, loopVars, queueVars, sourceVars>>
    /\ sema.req[r].pos = "pause"
    /\ sema' = [sema EXCEPT !.req[r].pos = "try"]

\* line 154: KeyboardInterrupt arrives during time.sleep(1), before the try
\* of line 156 is entered
HttpPauseInterrupted(r) ==
    /\ UNCHANGED <<notPipe, runVars, simVars, loopVars, queueVars, sourceVars>>
    /\ sema.req[r].pos = "pause"
    /\ sema' = [sema EXCEPT !.req[r].pos = "raised"]

\* lines 157-195: the request is made; it raises, or answers with a status
\* that raises CobaException, or with 200 and some lines, of which the first
\* is yielded
HttpRespond(r) ==
    /\ UNCHANGED <<notPipe, runVars, simVars, loopVars, queueVars, sourceVars>>
    /\ sema.req[r].pos = "try"
    /\ \/ Finally(r, "raised")
       \/ \E status \in Statuses, n \in 0 .. MaxLines :
            IF status # 200 THEN Finally(r, "raised")
            ELSE IF n = 0 THEN Finally(r, "returned")
            ELSE sema' = [sema EXCEPT !.req[r].pos = "yield", !.req[r].left = n - 1]

\* next() on the stream suspended at line 195: the next line, or the end
HttpNext(r) ==
    /\ UNCHANGED <<notPipe, runVars, simVars, loopVars, queueVars, sourceVars>>
    /\ sema.req[r].pos = "yield"
    /\ IF sema.req[r].left > 0
       THEN sema' = [sema EXCEPT !.req[r].left = @ - 1]
       ELSE Finally(r, "returned")

\* the connection fails or an interrupt arrives while the lines are read
HttpStreamRaises(r) ==
    /\ UNCHANGED <<notPipe, runVars, simVars, loopVars, queueVars, sourceVars>>
    /\ sema.req[r].pos = "yield"
    /\ Finally(r, "raised")

\* the consumer gives the stream up: close(), or the collection of the
\* generator, raises GeneratorExit at line 195
HttpClose(r) ==
    /\ UNCHANGED <<notPipe, runVars, simVars, loopVars, queueVars, sourceVars>>
    /\ sema.req[r].pos = "yield"
    /\ Finally(r, "closed")

SemaNext ==
    \E r \in Requests :
        \/ HttpAcquire(r)
        \/ HttpPause(r)
        \/ HttpPauseInterrupted(r)
        \/ HttpRespond(r)
        \/ HttpNext(r)
        \/ HttpStreamRaises(r)
        \/ HttpClose(r)

\* ------------------------------------- coba/pipes/sources.py, QueueSource

\* the poison of the source, and what a producer may put
Poison == None
QueueItems == {Poison} \cup Items

\* line 79: the test for the poison pill
IsPoisonNever(block, item) == FALSE
IsPoison(block, item) == block /\ item = Poison

\* a QueueSource over an empty queue, its read() called and not yet started
QueueInit ==
    \E block \in BOOLEAN :
        qsrc = [block |-> block, queue |-> <<>>, closed |-> FALSE, pos |-> "test",
                put |-> <<>>, dequeued |-> <<>>, yielded |-> <<>>, cause |-> "none",
                qsize |-> None]

\* a producer puts an item
QueuePut ==
    /\ UNCHANGED <<notPipe, runVars, simVars, loopVars, semaVars, sourceVars>>
    /\ ~qsrc.closed
    /\ Len(qsrc.put) < MaxPuts
    /\ \E x \in QueueItems :
        qsrc' = [qsrc EXCEPT !.queue = Append(@, x), !.put = Append(@, x)]

\* the channel of the queue is closed: its calls raise EOFError or
\* BrokenPipeError from now on
QueueClose ==
    /\ UNCHANGED <<notPipe, runVars, simVars, loopVars, semaVars, sourceVars>>
    /\ ~qsrc.closed
    /\ qsrc' = [qsrc EXCEPT !.closed = TRUE]

\* next() on the stream reaches the test of line 76: a blocking source does
\* not ask for the size; an error of qsize() ends the stream (lines 83-84)
QueueTest ==
    /\ UNCHANGED <<notPipe, runVars, simVars, loopVars, semaVars, sourceVars>>
    /\ qsrc.pos = "test"
    /\ qsrc' = IF qsrc.block THEN [qsrc EXCEPT !.pos = "get"]
               ELSE IF qsrc.closed THEN [qsrc EXCEPT !.pos = "ended", !.cause = "closed"]
               ELSE IF Len(qsrc.queue) > 0
               THEN [qsrc EXCEPT !.pos = "get", !.qsize = Len(qsrc.queue)]
               ELSE [qsrc EXCEPT !.pos = "ended", !.cause = "empty",
                                 !.qsize = Len(qsrc.queue)]

\* lines 77-82: get() returns once the queue holds an item, or raises; the
\* item is the poison pill and ends the stream, or is yielded
QueueGet ==
    /\ UNCHANGED <<notPipe, runVars, simVars, loopVars, semaVars, sourceVars>>
    /\ qsrc.pos = "get"
    /\ qsrc.closed \/ qsrc.queue # <<>>
    /\ qsrc' = IF qsrc.closed THEN [qsrc EXCEPT !.pos = "ended", !.cause = "closed"]
               ELSE IF IsPoison(qsrc.block, Head(qsrc.queue))
               THEN [qsrc EXCEPT !.queue = Tail(@), !.dequeued = Append(@, Head(qsrc.queue)),
                                 !.pos = "ended", !.cause = "poison"]
               ELSE [qsrc EXCEPT !.queue = Tail(@), !.dequeued = Append(@, Head(qsrc.queue)),
                                 !.yielded = Append(@, Head(qsrc.queue)),
                                 !.pos = "test"]

QueueNext ==
    \/ QueuePut
    \/ QueueClose
    \/ QueueTest
    \/ QueueGet

\* -------------------------------------- coba/pipes/sources.py, DiskSource

Readers == 1 .. MaxReads

\* the lines of the file as it holds them: line i is one byte, then CR LF
RawLine(i) == <<LetterA + i, CR, LF>>
RawLines(n) == [i \in 1 .. n |-> RawLine(i)]

\* line.decode('utf-8').rstrip('\r\n'), line 57
Decoded(line) == Strip(line)

\* __enter__, lines 37-46, when the file opens: self._file is the position
\* of the one handle, None while there is no handle
Entered(s) == [s EXCEPT !.count = @ + 1, !.file = IF @ = None THEN 0 ELSE @]

\* __enter__ when open raises: line 38 has run
EnterFailed(s) == [s EXCEPT !.count = @ + 1]

\* whether open is reached and raises
OpenRaises(s) == s.file = None /\ ~s.exists

\* __exit__, lines 48-52
Exited(s) ==
    [s EXCEPT !.count = @ - 1,
              !.file = IF s.count - 1 = 0 /\ @ # None THEN None ELSE @]

\* for line in self._file, lines 56-57, on a source that was entered: the
\* next line of the handle is yielded, or the with statement is left
Iterated(s, r) ==
    IF s.file < Len(s.lines)
    THEN [s EXCEPT !.file = @ + 1,
                   !.rd[r].pos = "yield",
                   !.rd[r].yielded = Append(@, Decoded(s.lines[s.file + 1]))]
    ELSE [Exited(s) EXCEPT !.rd[r].pos = "ended"]

\* a DiskSource of a file of some lines, or of no file, and its read()
\* called MaxReads times
SourceInit ==
    \E n \in 0 .. MaxLines, exists \in BOOLEAN :
        dsrc = [lines |-> IF exists THEN RawLines(n) ELSE <<>>,
                exists |-> exists, count |-> 0, file |-> None,
                with |-> "out",
                rd |-> [r \in Readers |-> [pos |-> "new", yielded |-> <<>>]]]

\* with source: is entered by the caller
SourceEnter ==
    /\ UNCHANGED <<notPipe, runVars, simVars, loopVars, semaVars, queueVars>>
    /\ dsrc.with = "out"
    /\ dsrc' = IF OpenRaises(dsrc) THEN [EnterFailed(dsrc) EXCEPT !.with = "raised"]
               ELSE [Entered(dsrc) EXCEPT !.with = "in"]

\* the caller's with block is left
SourceExit ==
    /\ UNCHANGED <<notPipe, runVars, simVars, loopVars, semaVars, queueVars>>
    /\ dsrc.with = "in"
    /\ dsrc' = [Exited(dsrc) EXCEPT !.with = "left"]

\* the first next() of a stream of read(): lines 55-57 up to the first yield
ReadStart(r) ==
    /\ UNCHANGED <<notPipe, runVars, simVars, loopVars, semaVars, queueVars>>
    /\ dsrc.rd[r].pos = "new"
    /\ dsrc' = IF OpenRaises(dsrc) THEN [EnterFailed(dsrc) EXCEPT !.rd[r].pos = "raised"]
               ELSE Iterated(Entered(dsrc), r)

\* a later next() of the stream
ReadNext(r) ==
    /\ UNCHANGED <<notPipe, runVars, simVars, loopVars, semaVars, queueVars>>
    /\ dsrc.rd[r].pos = "yield"
    /\ dsrc' = Iterated(dsrc, r)

\* the stream is closed before its end: GeneratorExit at line 57 leaves the
\* with statement
ReadClose(r) ==
    /\ UNCHANGED <<notPipe, runVars, simVars, loopVars, semaVars, queueVars>>
    /\ dsrc.rd[r].pos = "yield"
    /\ dsrc' = [Exited(dsrc) EXCEPT !.rd[r].pos = "closed"]

SourceNext ==
    \/ SourceEnter
    \/ SourceExit
    \/ \E r \in Readers :
        \/ ReadStart(r)
        \/ ReadNext(r)
        \/ ReadClose(r)

\* ---------------- the multiprocess runner, CobaMultiprocessFilter(...).filter

Workers == 1 .. NumProcs
WorkItems == 1 .. MaxWork

\* what the runner logs for a work item whose filter raised
UnexpectedException(i) == [text |-> "Unexpected exception:", item |-> i]

\* the worker after its filter raised: it is free for the next item
AfterRaiseStopped(w) == "stopped"
AfterRaise(w) == "free"

\* the runner is given some work items, and a filter that raises on some
RunInit ==
    \E raises \in SUBSET WorkItems :
        mpr = [raises |-> raises, queued |-> WorkItems,
               worker |-> [w \in Workers |-> "free"],
               item   |-> [w \in Workers |-> None],
               done |-> {}, out |-> {}, log |-> <<>>, finished |-> FALSE]

\* a free worker takes a work item
WorkerTake(w) ==
    /\ UNCHANGED <<notPipe, simVars, loopVars, semaVars, queueVars, sourceVars>>
    /\ ~mpr.finished
    /\ mpr.worker[w] = "free"
    /\ \E i \in mpr.queued :
        mpr' = [mpr EXCEPT !.queued = @ \ {i}, !.worker[w] = "busy", !.item[w] = i]

\* the worker applies the filter: its output is sent back, or the filter
\* raises, the runner logs it and the worker goes on
WorkerApply(w) ==
    /\ UNCHANGED <<notPipe, simVars, loopVars, semaVars, queueVars, sourceVars>>
    /\ mpr.worker[w] = "busy"
    /\ mpr' = IF mpr.item[w] \in mpr.raises
              THEN [mpr EXCEPT !.log = Append(@, UnexpectedException(mpr.item[w])),
                               !.done = @ \cup {mpr.item[w]},
                               !.worker[w] = AfterRaise(w), !.item[w] = None]
              ELSE [mpr EXCEPT !.out = @ \cup {mpr.item[w]},
                               !.done = @ \cup {mpr.item[w]},
                               !.worker[w] = "free", !.item[w] = None]

\* no work item is left and no worker is busy: filter returns
RunFinish ==
    /\ UNCHANGED <<notPipe, simVars, loopVars, semaVars, queueVars, sourceVars>>
    /\ ~mpr.finished
    /\ mpr.queued = {}
    /\ \A w \in Workers : mpr.worker[w] # "busy"
    /\ mpr' = [mpr EXCEPT !.finished = TRUE]

RunNext ==
    \/ \E w \in Workers : WorkerTake(w)
    \/ \E w \in Workers : WorkerApply(w)
    \/ RunFinish

\* ------------------------------------------------------ specifications

\* the cacher while evaluate runs, and evaluate while the cacher runs
CacheIdle ==
    /\ cdict = NoEntries
    /\ disk = NoEntries
    /\ waiting = {}
    /\ op = <<>>
    /\ pc = <<>>
    /\ stack = <<>>
    /\ gen = <<>>
    /\ stream = <<>>
    /\ outcome = <<>>
    /\ rheld = <<>>
    /\ wheld = {}
    /\ hist = <<>>

EvalIdle ==
    /\ policy = [kind |-> "sizes", sizes |-> <<>>]
    /\ epc = "idle"
    /\ simulation_index = 0
    /\ isLazy = FALSE
    /\ loaded = {}
    /\ interaction_count = 0
    /\ batch_indexes = <<>>
    /\ learner_index = 0
    /\ zpos = 0
    /\ currkey = None
    /\ tgtkey = None
    /\ currvalue = None
    /\ keys = <<>>
    /\ nrewards = None
    /\ nlearned = 0
    /\ results = <<>>
    /\ logged = <<>>
    /\ calls = <<>>
    /\ rerun = OnlyCall
    /\ nsims = 0
    /\ lcalls = NoLazyLog

RandomIdle ==
    /\ seed = 0
    /\ draws = 0
    /\ rcall = NoCall
    /\ since = [s |-> 0, n |-> 0]

BatchIdle ==
    bcall = [policy |-> [kind |-> "none"], n |-> 0, called |-> FALSE,
             raised |-> FALSE, out |-> <<>>]

StoreIdle ==
    /\ ckind = "null"
    /\ files = [k \in CacheKeys |-> NoFile]
    /\ scall = NoStoreCall
    /\ nops = 0
    /\ oread = NoRead

PipeIdle ==
    /\ scon = <<>>
    /\ floop = <<>>
    /\ sema = <<>>
    /\ qsrc = <<>>
    /\ dsrc = <<>>
    /\ mpr = <<>>

InitEval == EvalInit /\ CacheIdle /\ RandomIdle /\ BatchIdle /\ StoreIdle /\ PipeIdle

SpecEval == InitEval /\ [][EvalNext]_vars

InitRerun == RerunInit /\ CacheIdle /\ RandomIdle /\ BatchIdle /\ StoreIdle /\ PipeIdle

SpecRerun == InitRerun /\ [][RerunNext]_vars

InitCache == CacheInit /\ EvalIdle /\ RandomIdle /\ BatchIdle /\ StoreIdle /\ PipeIdle

SpecCache == InitCache /\ [][CacheNext]_vars

InitRandom == RandomInit /\ EvalIdle /\ CacheIdle /\ BatchIdle /\ StoreIdle /\ PipeIdle

SpecRandom == InitRandom /\ [][RandomNext]_vars

InitBatch == BatchInit /\ EvalIdle /\ CacheIdle /\ RandomIdle /\ StoreIdle /\ PipeIdle

SpecBatch == InitBatch /\ [][BatchNext]_vars

InitLazy == LazyInit /\ CacheIdle /\ RandomIdle /\ BatchIdle /\ StoreIdle /\ PipeIdle

SpecLazy == InitLazy /\ [][EvalNext]_vars

InitStore == StoreInit /\ EvalIdle /\ CacheIdle /\ RandomIdle /\ BatchIdle /\ PipeIdle

SpecStore == InitStore /\ [][StoreNext]_vars

InitOpenml == OpenmlInit /\ EvalIdle /\ CacheIdle /\ RandomIdle /\ BatchIdle /\ PipeIdle

SpecOpenml == InitOpenml /\ [][OpenmlNext]_vars

OldIdle == EvalIdle /\ CacheIdle /\ RandomIdle /\ BatchIdle /\ StoreIdle

InitSim == SimInit /\ OldIdle /\ floop = <<>> /\ sema = <<>> /\ qsrc = <<>> /\ dsrc = <<>> /\ mpr = <<>>

SpecSim == InitSim /\ [][SimNext]_vars

InitLoop == LoopInit /\ OldIdle /\ scon = <<>> /\ sema = <<>> /\ qsrc = <<>> /\ dsrc = <<>> /\ mpr = <<>>

\* the interpreter keeps running the loop
SpecLoop == InitLoop /\ [][LoopNext]_vars /\ WF_vars(LoopNext)

InitOrder == OrderInit /\ CacheIdle /\ RandomIdle /\ BatchIdle /\ StoreIdle /\ PipeIdle

SpecOrder == InitOrder /\ [][EvalNext]_vars

InitSema == SemaInit /\ OldIdle /\ scon = <<>> /\ floop = <<>> /\ qsrc = <<>> /\ dsrc = <<>> /\ mpr = <<>>

SpecSema == InitSema /\ [][SemaNext]_vars

InitQueue == QueueInit /\ OldIdle /\ scon = <<>> /\ floop = <<>> /\ sema = <<>> /\ dsrc = <<>> /\ mpr = <<>>

SpecQueue == InitQueue /\ [][QueueNext]_vars

InitSource == SourceInit /\ OldIdle /\ scon = <<>> /\ floop = <<>> /\ sema = <<>> /\ qsrc = <<>> /\ mpr = <<>>

SpecSource == InitSource /\ [][SourceNext]_vars

InitRun ==
    RunInit /\ OldIdle /\ scon = <<>> /\ floop = <<>> /\ sema = <<>> /\ qsrc = <<>> /\ dsrc = <<>>

SpecRun == InitRun /\ [][RunNext]_vars

\* ------------------------------------------------- claims on evaluate

Sims     == 0 .. (NumSims - 1)
Learners == 0 .. (NumLearners - 1)

IsPrefix(a, b) == Len(a) <= Len(b) /\ a = SubSeq(b, 1, Len(a))

\* the calls of one kind made for batch b of the pair (s, l), in call order
CallsFor(log, what, s, l, b) ==
    LET Test(c) == c.op = what /\ c.sim = s /\ c.learner = l /\ c.batch = b
    IN  SelectSeq(log, Test)

KeysOf(cs) == [i \in 1 .. Len(cs) |-> cs[i].key]

Returned(cs) == LET Test(c) == c.ok IN SelectSeq(cs, Test)

BatchesSeen(s, l) ==
    { calls[i].batch : i \in { j \in 1 .. Len(calls) :
        calls[j].sim = s /\ calls[j].learner = l /\ calls[j].op = "choose" } }

ResultsFor(s, l, b) ==
    { i \in 1 .. Len(results) :
        /\ results[i].simulation_index = s
        /\ results[i].learner_name = l
        /\ results[i].batch_index = b }

\* the batches of a schedule that receive at least one of n interactions
NonEmptyBatches(sizes, n) ==
    { b \in 0 .. (Len(sizes) - 1) :
        sizes[b + 1] > 0 /\ Sum(SubSeq(sizes, 1, b)) < n }

Failed(s) == \E i \in 1 .. Len(logged) : logged[i] = s

\* C1: when the loop leaves a simulation that raised nothing, the output
\* holds, for each of the learners, exactly one Result per non-empty batch of
\* the simulation's schedule, and no other Result of that simulation.
C1_ResultsForEveryLearner ==
    (epc = "unload" /\ ~Failed(simulation_index)) =>
        \A l \in Learners : \A b \in 0 .. MaxSchedule + MaxInteractions :
            Cardinality(ResultsFor(simulation_index, l, b)) =
                IF b \in NonEmptyBatches(BatchSizes(policy, interaction_count),
                                         interaction_count)
                THEN 1 ELSE 0

\* C2: for one (simulation, learner) pair, the chooses of a batch are made in
\* interaction order, the learns of a batch follow in the same order after
\* all its chooses, and every learn of a batch precedes every choose of a
\* later batch.
C2_OnPolicyOrder ==
    \A s \in Sims : \A l \in Learners :
        /\ \A b \in BatchesSeen(s, l) :
            LET chosen  == KeysOf(CallsFor(calls, "choose", s, l, b))
                learned == KeysOf(CallsFor(calls, "learn", s, l, b))
            IN  /\ \A i, j \in 1 .. Len(chosen) : i < j => chosen[i] < chosen[j]
                /\ IsPrefix(learned, chosen)
        /\ \A i, j \in 1 .. Len(calls) :
            (/\ i < j
             /\ calls[i].sim = s /\ calls[i].learner = l
             /\ calls[j].sim = s /\ calls[j].learner = l
             /\ calls[j].op = "choose") =>
                /\ calls[i].op = "learn" => calls[i].batch < calls[j].batch
                /\ calls[i].op = "choose" => calls[i].batch <= calls[j].batch
                /\ (calls[i].op = "choose" /\ calls[i].batch < calls[j].batch) =>
                      LET before == SubSeq(calls, 1, j)
                          b      == calls[i].batch
                      IN  KeysOf(Returned(CallsFor(before, "learn", s, l, b)))
                            = KeysOf(CallsFor(before, "choose", s, l, b))

\* a pair whose second batch is reached after a first batch of two interactions
C2_Witness ==
    \E s \in Sims : \E l \in Learners :
        /\ Len(CallsFor(calls, "learn", s, l, 0)) = 2
        /\ Len(CallsFor(calls, "learn", s, l, 1)) = 1

\* C3: when the loop leaves a simulation, every choose, learn or rewards call
\* that raised was logged once, was the last call of its pair, and the
\* learners after it were still evaluated on the same simulation; and
\* evaluate returns only after the last simulation.
C3_FailureOnlyFailsPair ==
    /\ epc = "unload" =>
        \A i \in 1 .. Len(calls) :
            (calls[i].op \in {"choose", "learn", "rewards"} /\ ~calls[i].ok) =>
                /\ Cardinality({ j \in 1 .. Len(logged) : logged[j] = calls[i].sim }) = 1
                /\ \A j \in (i + 1) .. Len(calls) : calls[j].learner # calls[i].learner
                /\ \A l \in Learners : l > calls[i].learner =>
                     \E j \in 1 .. Len(calls) :
                        calls[j].op = "factory" /\ calls[j].learner = l
    /\ epc = "done" => simulation_index = NumSims

C4_ResultsJustified ==
    /\ \A i \in { j \in 1 .. Len(results) :
                    \E c \in 1 .. Len(calls) : calls[c].sim = results[j].simulation_index } :
        LET s == results[i].simulation_index
            l == results[i].learner_name
            b == results[i].batch_index
            chosen   == CallsFor(calls, "choose", s, l, b)
            rewarded == CallsFor(calls, "rewards", s, l, b)
            learned  == CallsFor(calls, "learn", s, l, b)
        IN  /\ Len(rewarded) = 1 /\ rewarded[1].ok
            /\ Len(chosen) >= 1
            /\ results[i].n = Len(chosen)
            /\ KeysOf(learned) = KeysOf(chosen)
            /\ \A j \in 1 .. Len(chosen)  : chosen[j].ok
            /\ \A j \in 1 .. Len(learned) : learned[j].ok
    /\ \A i \in 1 .. Len(calls) :
        (~calls[i].ok /\ calls[i].batch # None) =>
            ResultsFor(calls[i].sim, calls[i].learner, calls[i].batch) = {}

\* C4: a Result of a batch is in the output only when the batch's rewards and
\* stats were computed and learn returned for every observation of the batch;
\* a batch in which a call raised has no Result, and the Results emitted
\* before stay in the output.
C4_ResultOnlyAfterLearn ==
    [](C4_ResultsJustified) /\ [][IsPrefix(results, results')]_vars

\* the loop leaves a simulation with the Result of the first batch of a pair
\* whose second batch raised in learn
C4_Witness ==
    /\ epc = "unload"
    /\ \E i \in 1 .. Len(calls) :
        /\ ~calls[i].ok
        /\ calls[i].op = "learn"
        /\ calls[i].batch = 1
        /\ \E r \in ResultsFor(calls[i].sim, calls[i].learner, 0) : results[r].n = 2

\* --------------------------------------------- claims on ConcurrentCacher

AllDone == \A p \in Procs : pc[p] = "done"

\* the processes inside a write section, and the read locks held
Writers   == { p \in wheld : pc[p] # "done" }
ReadLocks == Sum([p \in Procs |-> rheld[p]])
Counter   == IF Key \in DOMAIN cdict THEN cdict[Key] ELSE 0

\* C5: the counter of the key is absent, -1 or >= 0; it is -1 exactly when one
\* process is inside a write section and no read lock is held; it is n > 0
\* exactly when n read locks are held and no process is inside a write
\* section; there is never more than one writer.
C5_LockInvariant ==
    /\ Counter >= -1
    /\ Cardinality(Writers) <= 1
    /\ Counter = -1 <=> (Cardinality(Writers) = 1 /\ ReadLocks = 0)
    /\ Counter > 0 <=> (ReadLocks > 0 /\ Writers = {})
    /\ Counter > 0 => Counter = ReadLocks

\* no wrapped cacher raised and no stream was abandoned
CleanRun == \A p \in Procs : outcome[p] \in {"none", "ok"}

\* C6: when the wrapped cacher raises nothing and every stream is drained, no
\* process stays in wait() while every other process has finished or waits
\* too: a process that waits for a lock gets it.
C6_NoLostWakeup ==
    CleanRun =>
        ~(/\ waiting # {}
          /\ \A p \in Procs : pc[p] \in {"done", "ar_wait", "aw_wait"})

\* C7: once the consumption of a stream has ended, by exhaustion, by the
\* consumer dropping it or by the underlying stream raising, the counter no
\* longer counts a read lock of that stream.
C7_StreamLockReleased ==
    \A p \in Procs :
        (pc[p] = "done" /\ gen[p] \in {"ended", "dropped", "raised"}) => rheld[p] = 0

\* C8: after the wrapped cacher raised inside the write section of put, rmv or
\* get_put and the error left the operation, the write lock is released.
C8_WriteLockReleasedOnError ==
    \A p \in Procs : (p \in hist.failed /\ pc[p] = "done") => p \notin wheld

Complete(v) == \E w \in Procs \cup {0} : v = Payload(w)

StreamsOwnValue(p) ==
    /\ op[p] = "get_put"
    /\ p \in hist.writers
    /\ pc[p] \in {"dgp_get", "gp_308", "consume"}

C10_NoWriterWhileStreaming ==
    \A p \in Procs : StreamsOwnValue(p) =>
        /\ wheld \subseteq {p}
        /\ Counter # 0
        /\ Contains(disk, Key) /\ disk[Key] = Payload(p)

C10_DowngradeStep ==
    \A p \in Procs :
        (pc[p] \in {"gp_308", "gp_316"} /\ pc'[p] # pc[p]) =>
            cdict[Key] = -1 /\ cdict'[Key] = 1

\* C10: the downgrade of get_put takes the counter from -1 to 1 in one step,
\* and from the moment the getter's value is stored until its stream is no
\* longer consumed no other process is inside a write section and the entry
\* is the stored value.
C10_DowngradeAtomic ==
    [](C10_NoWriterWhileStreaming) /\ [][C10_DowngradeStep]_vars

\* a put or rmv waits for the lock while the producer streams its value
C10_Witness ==
    \E p, q \in Procs :
        /\ StreamsOwnValue(p)
        /\ pc[p] = "consume"
        /\ gen[p] = "open"
        /\ op[q] \in {"put", "rmv"}
        /\ pc[q] = "aw_wait"

\* C11: a get_put whose unlocked containment test found the entry never calls
\* the producer, and the stream it drains is a complete stored value or, when
\* a rmv or the clean-up of a failed put deleted the entry in between, empty.
C11_KnownRace ==
    \A p \in hist.found :
        /\ p \notin hist.writers
        /\ p \notin hist.failed
        /\ gen[p] = "ended" =>
              \/ Complete(stream[p])
              \/ stream[p] = <<>> /\ (hist.removed \/ hist.failed # {})

\* the get_put found the entry stored before the run, a rmv then deleted it,
\* and the get_put returned an empty stream with no producer called
C11_Witness ==
    \E p \in hist.found :
        /\ hist.initial /\ hist.removed /\ hist.failed = {}
        /\ hist.writers = {}
        /\ pc[p] = "done"
        /\ outcome[p] = "ok"
        /\ gen[p] = "ended"
        /\ stream[p] = <<>>

\* C15: with a literal schedule whose sum is at most N, a simulation that
\* raised nothing has, for each learner, one Result per non-zero entry s_b and
\* none for a zero entry; the Result of batch b has n = s_b and its chooses are
\* the s_b interactions from position s_0 + ... + s_(b-1) on; no interaction
\* at or after the sum is passed to choose.
C15_LiteralSchedule ==
    (/\ epc = "unload" /\ ~Failed(simulation_index)
     /\ policy.kind = "sizes" /\ Sum(policy.sizes) <= interaction_count) =>
        \A l \in Learners :
            /\ \A b \in 0 .. (Len(policy.sizes) - 1) :
                LET s_b    == policy.sizes[b + 1]
                    start  == Sum(SubSeq(policy.sizes, 1, b))
                    chosen == KeysOf(CallsFor(calls, "choose", simulation_index, l, b))
                IN  IF s_b = 0 THEN ResultsFor(simulation_index, l, b) = {}
                    ELSE /\ Cardinality(ResultsFor(simulation_index, l, b)) = 1
                         /\ \A i \in ResultsFor(simulation_index, l, b) : results[i].n = s_b
                         /\ chosen = [j \in 1 .. s_b |-> start + j - 1]
            /\ \A i \in 1 .. Len(calls) :
                (/\ calls[i].op = "choose" /\ calls[i].sim = simulation_index
                 /\ calls[i].learner = l) => calls[i].key < Sum(policy.sizes)

C13_CountSchedule ==
    (bcall.called /\ bcall.policy.kind = "count" /\ ~bcall.raised) =>
        LET K     == bcall.policy.count
            N     == bcall.n
            r     == N % K
            slots == IF r = 0 THEN {} ELSE { (i * K) \div r : i \in 0 .. (r - 1) }
        IN  /\ Len(bcall.out) = K
            /\ Sum(bcall.out) = N
            /\ Cardinality(slots) = r
            /\ \A j \in 1 .. K :
                  bcall.out[j] = (N \div K) + (IF (j - 1) \in slots THEN 1 ELSE 0)

\* C14: for batch_size = fn the schedule is fn(0), ..., fn(j-1) for the largest
\* j whose sum is at most N: a batch that uses up exactly the remaining
\* interactions is kept, only one that exceeds them is dropped.
C14_FnSchedule ==
    (bcall.called /\ bcall.policy.kind = "fn" /\ ~bcall.raised) =>
        LET f == bcall.policy.fn
            j == Len(bcall.out)
        IN  /\ \A i \in 1 .. j : bcall.out[i] = FnValue(f, i - 1)
            /\ Sum(bcall.out) <= bcall.n
            /\ Sum(bcall.out) + FnValue(f, j) > bcall.n

\* C16: whatever the policy, the sizes of the computed schedule sum to at most
\* the interaction count.
C16_BatchCoverage ==
    (bcall.called /\ ~bcall.raised) => Sum(bcall.out) <= bcall.n

\* C17: for a constant batch_size = S >= 1 the schedule is floor(N/S) batches
\* of size S, which leaves the last N mod S interactions in no batch.
C17_ConstSchedule ==
    (bcall.called /\ bcall.policy.kind = "size" /\ bcall.policy.size >= 1) =>
        LET S == bcall.policy.size
        IN  /\ ~bcall.raised
            /\ Len(bcall.out) = bcall.n \div S
            /\ \A j \in 1 .. Len(bcall.out) : bcall.out[j] = S
            /\ Len(BatchIndexes(bcall.out)) = bcall.n - (bcall.n % S)

C17_Witness ==
    /\ bcall.called /\ bcall.policy.kind = "size"
    /\ bcall.policy.size = 2 /\ bcall.n = 3
    /\ bcall.out = <<2>>

\* ------------------------------------------------ claims on coba.random

\* the items of s with how often each occurs
Multiset(s) == [x \in { s[j] : j \in 1 .. Len(s) } |->
                   Cardinality({ j \in 1 .. Len(s) : s[j] = x })]

\* C18: randint(lo, hi) returns r with lo <= r <= hi for every lo <= hi and
\* every generator state, the one whose draw is exactly 1.0 included.
C18_RandintInRange ==
    rcall.op = "randint" => rcall.a <= rcall.out /\ rcall.out <= rcall.b

\* C19: the upper end is reachable: randint(lo, hi) returns hi for some
\* generator state and choice(seq) returns the last element of seq for some
\* generator state. The result never decreases with the draw, so this is so
\* exactly when the largest draw, self_m - 1, gives hi and the last element.
C19_UpperEndReachable ==
    rcall.number = self_m - 1 =>
        /\ rcall.op = "randint" => rcall.out = rcall.b
        /\ (rcall.op = "choice" /\ rcall.seq # <<>>) =>
              ~rcall.raised /\ rcall.out = rcall.seq[Len(rcall.seq)]

\* C20: shuffle returns, for every finite sequence and every seed, a new
\* sequence with the same items as often, and leaves its argument as it was.
C20_ShufflePermutation ==
    rcall.op = "shuffle" =>
        /\ ~rcall.raised
        /\ Len(rcall.outseq) = Len(rcall.seq)
        /\ Multiset(rcall.outseq) = Multiset(rcall.seq)
        /\ rcall.after = rcall.seq

\* the numbers a new Random(since.s) produces in its first since.n draws
FreshNumbers == NextN(since.s, since.n)

\* the last k of them
FreshLast(k) == SubSeq(FreshNumbers, since.n - k + 1, since.n)

\* C21: what the module's generator returns and the state it is left in are
\* those of a new Random(s) given the same calls, s being the seed the
\* generator was last made with (seed(s), or its construction).
C21_SeedDeterminism ==
    /\ seed = IF since.n = 0 THEN since.s ELSE FreshNumbers[since.n]
    /\ (rcall.op = "randint") =>
          rcall.out = RandintOf(rcall.a, rcall.b, FreshLast(1)[1])
    /\ (rcall.op = "choice" /\ ~rcall.raised) =>
          rcall.out = IndexOf(rcall.seq,
                              RandintOf(0, Len(rcall.seq) - 1, FreshLast(1)[1]))
    /\ (rcall.op = "shuffle" /\ ~rcall.raised) =>
          rcall.outseq = ShuffleFrom(rcall.seq, FreshLast(Len(rcall.seq)), 0)
    /\ (rcall.op = "randoms" /\ ~rcall.raised) =>
          rcall.outseq = [j \in 1 .. rcall.a |-> Uniform(FreshLast(rcall.a)[j])]

\* a shuffle as the second call after seed(s)
C21_Witness ==
    /\ rcall.op = "shuffle" /\ Len(rcall.seq) = 2 /\ rcall.outseq # rcall.seq
    /\ since.n = 2 /\ draws = 2

\* (116646453 * s + 9) mod 2^30, the product taken in halves of 15 bits
Lcg(s) ==
    LET h  == 2 ^ 15
        p  == s % self_m
        lo == (self_a % h) * (p % h)
        hi == (((self_a \div h) * (p % h)) + ((self_a % h) * (p \div h))) % h
    IN  (((lo + (hi * h)) % self_m) + self_c) % self_m

\* f is a float of [0, 1]
InUnitInterval(f) ==
    \/ FloatInt(f) = 0
    \/ /\ FloatInt(f) = 1
       /\ \A j \in 1 .. Len(f[1]) : j <= 0 - f[2] => f[1][j] = 0

\* C22: for any integer seed, negative or beyond 2^30 included, the state
\* after a draw is (116646453 * previous state + 9) mod 2^30, lies in
\* [0, 2^30 - 1], and every number randoms returns is state/(2^30 - 1), a
\* float of [0, 1].
C22_LcgState ==
    /\ since.n > 0 => seed \in 0 .. (self_m - 1)
    /\ (rcall.op \in {"randint", "choice"}) =>
          rcall.number = Lcg(rcall.before) /\ seed = rcall.number
    /\ (rcall.op = "randoms" /\ ~rcall.raised) =>
          /\ rcall.seq[1] = Lcg(rcall.before)
          /\ \A j \in 2 .. rcall.a : rcall.seq[j] = Lcg(rcall.seq[j - 1])
          /\ seed = rcall.seq[rcall.a]
          /\ \A j \in 1 .. rcall.a :
                /\ rcall.outseq[j] = FloatDiv(rcall.seq[j], self_m - 1)
                /\ InUnitInterval(rcall.outseq[j])

\* two numbers drawn by randoms from a generator seeded with a negative seed
C22_Witness ==
    /\ rcall.op = "randoms" /\ rcall.a = 2
    /\ rcall.before < 0

\* C23: constructing a LambdaSource leaves the module's generator in the
\* state it was in, so the caller's draws continue their sequence.
C23_GeneratorsNotShared ==
    rcall.op = "source" => seed = rcall.before

\* ------------------------------------------- claims on the single cachers

\* C24: for the Memory and Disk cachers, from any state of the cache, the
\* lines get(k) yields after put(k, v) are the lines of v, line ends
\* stripped, and after rmv(k) the key is not in the cache.
C24_RoundTrip ==
    ckind \in {"memory", "disk"} =>
        /\ (scall.op = "put" /\ scall.raised = "none") =>
              LET got == GetOf(ckind, files, TheKey, 0)
              IN  /\ got.raised = "none"
                  /\ StripAll(got.out) = StripAll(scall.value.lines)
        /\ scall.op = "rmv" => ~InCacher(ckind, files, TheKey)

\* C25: for every cacher, put(k, v2) on a key that is in the cache puts
\* nothing: what the cache holds for k is what it held before.
C25_PutKeepsExisting ==
    (scall.op = "put" /\ scall.was.present) => files[TheKey] = scall.was

\* how the call held in scall ends on a NullCacher, lines 72-85
NullRaises == scall.op = "get" \/ (scall.op = "get_put" /\ scall.value.fails)
NullOut    == IF scall.op = "get_put" THEN scall.value.lines ELSE <<>>

\* C26: a DiskCacher without a cache directory does on every call what a
\* NullCacher does: contains is false, get raises, put and rmv do nothing
\* and raise nothing, get_put hands on the getter's stream.
C26_NoDirIsNull ==
    ckind = "nodir" =>
        /\ ~files[TheKey].present
        /\ ~scall.found
        /\ (scall.raised # "none") = NullRaises
        /\ scall.out = NullOut
        /\ scall.op = "get_put" => scall.getter = 1

\* C27: when DiskCacher.put(k, v) fails while it writes the lines of v, the
\* error is raised again and the partial file is removed, so k is not in the
\* cache afterwards and a get_put(k, getter) that follows calls the getter.
C27_FailedPutRemoved ==
    ckind = "disk" =>
        /\ (scall.op = "put" /\ ~scall.was.present /\ scall.value.fails) =>
              /\ scall.raised = "stream"
              /\ ~InCacher(ckind, files, TheKey)
        /\ (scall.op = "get_put" /\ scall.prev = "put" /\ scall.prevraised = "stream") =>
              scall.getter = 1

\* a get_put that follows a failed put, calls the getter and stores its lines
C27_Witness ==
    /\ ckind = "disk"
    /\ scall.op = "get_put" /\ scall.prev = "put" /\ scall.prevraised = "stream"
    /\ scall.getter = 1 /\ scall.raised = "none"
    /\ files[TheKey].present /\ Len(scall.out) = 2

\* C28: when the stream of get fails because the entry is damaged, the
\* error reaches the caller and the entry is removed: the key is not in the
\* cache afterwards.
C28_CorruptEntryRemoved ==
    (scall.op = "get" /\ scall.raised = "corrupt") =>
        ~InCacher(ckind, files, TheKey)

\* ---------------------------------------- claims on OpenmlSource.read

\* C29: an error raised inside read reaches the caller as it is; for a
\* KeyboardInterrupt or a CobaException the cache is left as it was when the
\* error was raised, for any other error none of the five entries of the
\* dataset is in the cache afterwards.
C29_ReadErrorHandling ==
    (oread.called /\ oread.raised # "none") =>
        /\ oread.reached = oread.raised
        /\ IF oread.raised \in {"KeyboardInterrupt", "CobaException"}
           THEN files = oread.atraise
           ELSE \A k \in OpenmlKeys : ~InCacher(ckind, files, k)

\* --------------------------------------- claims on lazy simulations

\* the calls of load and unload made on simulation i, in order
LazyOps(i) ==
    LET idx == { j \in 1 .. Len(lcalls.calls) : lcalls.calls[j].sim = i }
        nth(k) == CHOOSE j \in idx : Cardinality({ x \in idx : x <= j }) = k
    IN  [k \in 1 .. Cardinality(idx) |-> lcalls.calls[nth(k)].op]

C31_KeysDense ==
    (scon # <<>> /\ scon.kind \in {"lambda", "classification"} /\ ~scon.sim.raised) =>
        \A i \in 1 .. Len(scon.sim.given) :
            /\ scon.sim.given[i].key = i - 1
            /\ scon.sim.given[i].actions # <<>>

C31_Witness ==
    /\ scon # <<>>
    /\ scon.kind = "lambda"
    /\ ~scon.sim.raised
    /\ Len(scon.sim.given) >= 2
    /\ scon.ask # NoAsk

\* C32: in a ClassificationSimulation every interaction offers one action
\* per distinct label, choosing action index j in the interaction built from
\* a row with label y is rewarded 1 if the j-th action is the encoding of y
\* and 0 otherwise, and exactly one action of every interaction is rewarded 1.
C32_ClassificationRewards ==
    (scon # <<>> /\ scon.kind = "classification" /\ ~scon.sim.raised) =>
        LET sim == scon.sim
            reward(p, j) == Reward(sim.rewards, << <<sim.given[p].key, j - 1>> >>)
        IN
        \A p \in 1 .. Len(sim.given) :
            /\ Len(sim.given[p].actions)
                 = Cardinality({ sim.labels[i] : i \in 1 .. Len(sim.labels) })
            /\ \A j \in 1 .. Len(sim.given[p].actions) :
                /\ ~RewardRaises(sim.rewards, << <<sim.given[p].key, j - 1>> >>)
                /\ reward(p, j) =
                     IF sim.given[p].actions[j] = OneHot(sim.label_set, sim.labels[p])
                     THEN <<1>> ELSE <<0>>
            /\ Cardinality({ j \in 1 .. Len(sim.given[p].actions) : reward(p, j) = <<1>> }) = 1

C32_Witness ==
    /\ scon # <<>>
    /\ scon.kind = "classification"
    /\ ~scon.sim.raised
    /\ Len(scon.sim.given) >= 2
    /\ Len(scon.sim.label_set) >= 2
    /\ scon.ask # NoAsk
    /\ ~scon.ask.raised
    /\ scon.ask.out = <<1>>

\* C37: for a MemorySimulation built from interactions I and reward sets R
\* of equal length, reward of the (key, choice) pairs of places (p, c) of I
\* returns, in order, the rewards R[p][c], also through a TakeSimulation.
C37_RewardOfPlace ==
    (scon # <<>> /\ scon.kind = "memory" /\ scon.ask # NoAsk) =>
        /\ ~scon.ask.raised
        /\ Len(scon.ask.out) = Len(scon.ask.choices)
        /\ \A j \in 1 .. Len(scon.ask.choices) :
            scon.ask.out[j]
              = scon.sim.reward_sets[scon.ask.choices[j][1]][scon.ask.choices[j][2]]

\* ------------------------------------- claims on the loop of _batch_sizes

\* C34: the schedule computation for a callable batch_size ends, for every
\* interaction count and every function returning integers >= 0.
C34_LoopEnds == <>(floop # <<>> /\ floop.pos = "returned")

\* the loop agrees with FnSizes where that is defined, and a loop that ends
\* has appended fewer than LoopCap batches
LoopAgrees ==
    (floop # <<>> /\ floop.pos = "returned") =>
        /\ Len(floop.batch_sizes) < LoopCap
        /\ floop.fn \in FnTables => floop.batch_sizes = FnSizes(floop.fn, floop.n)

\* ------------------------------------ claims on the order of the results

\* a result comes before another in the order of (simulation index,
\* position of the learner factory, batch index)
Before(a, b) ==
    \/ a.simulation_index < b.simulation_index
    \/ /\ a.simulation_index = b.simulation_index
       /\ \/ a.learner_name < b.learner_name
          \/ /\ a.learner_name = b.learner_name
             /\ a.batch_index < b.batch_index

\* C36: the list evaluate returns is in ascending order of (simulation
\* index, position of the learner factory, batch index), and the batch
\* indexes of one simulation and learner are strictly increasing.
C36_ResultsOrdered ==
    \A i, j \in 1 .. Len(results) : i < j => Before(results[i], results[j])

C36_Witness ==
    /\ epc = "done"
    /\ \E i, j, k \in 1 .. Len(results) :
        /\ results[i].simulation_index # results[j].simulation_index
        /\ results[j].simulation_index = results[k].simulation_index
        /\ results[j].learner_name # results[k].learner_name
    /\ \E i, j \in 1 .. Len(results) :
        /\ results[i].simulation_index = results[j].simulation_index
        /\ results[i].learner_name = results[j].learner_name
        /\ results[i].batch_index # results[j].batch_index

\* ----------------------------------- claims on ConcurrentCacher.get_put

\* every process calls get_put, or nothing
OnlyGetPut == \A p \in Procs : op[p] \in {"none", "get_put"}

\* in every interleaving of get_put calls the getter is called at most once
GetterOnce == (cdict # <<>> /\ hist # <<>> /\ OnlyGetPut) => Cardinality(hist.getters) <= 1

\* in every interleaving of get_put calls every call that returns has read
\* the lines of the one file written: those found before the run, or those
\* the one getter called has produced
SameStream ==
    (hist # <<>> /\ OnlyGetPut) =>
        \A p \in Procs : outcome[p] = "ok" =>
            IF hist.initial
            THEN stream[p] = Payload(0) /\ hist.getters = {}
            ELSE \E q \in hist.getters : hist.getters = {q} /\ stream[p] = Payload(q)

\* C35: with no rmv and every stream drained, get_put calls the getter at
\* most once and every call returns the value that call of the getter has
\* produced; stated here for the call that invokes the getter, on a
\* MemoryCacher or a DiskCacher, with the lines compared as rstrip leaves them.
C35_ReturnsProduced ==
    (/\ scall.op = "get_put"
     /\ ckind \in {"memory", "disk"}
     /\ scall.getter = 1
     /\ scall.raised = "none") =>
        StripAll(scall.out) = StripAll(scall.value.lines)

\* --------------------------------------------- claims on _http_request

\* a request is in flight from its acquire to its end
InFlight(r) == sema.req[r].pos \in {"pause", "try", "yield"}

Ended(r) == sema.req[r].pos \in {"raised", "returned", "closed"}

\* C38: the permit acquired for a request is released exactly once on
\* every way the request ends after the acquire, so the permits held equal
\* the requests in flight and never exceed the semaphore's capacity.
C38_PermitsMatchRequests ==
    (sema # <<>> /\ sema.on) =>
        /\ \A r \in Requests :
            /\ Ended(r) => sema.req[r].released = 1
            /\ InFlight(r) => sema.req[r].released = 0
        /\ Capacity - sema.free = Cardinality({ r \in Requests : InFlight(r) })
        /\ Capacity - sema.free <= Capacity

\* the same without the interrupt during the pause
PermitsMatchUninterrupted ==
    (sema # <<>> /\ sema.on /\ \A r \in Requests : sema.req[r].acquired = sema.req[r].released
                                                     \/ InFlight(r)) =>
        Capacity - sema.free = Cardinality({ r \in Requests : InFlight(r) })

\* ------------------------------------------------ claims on QueueSource

\* the items of a sequence before the first poison pill
RECURSIVE BeforePoison(_)
BeforePoison(s) ==
    IF s = <<>> \/ Head(s) = Poison THEN <<>> ELSE <<Head(s)>> \o BeforePoison(Tail(s))

\* C39: a blocking read yields, in the order they were put, the items
\* dequeued before the first poison pill, never the pill, and ends as soon
\* as the pill is dequeued or the channel is closed; a non-blocking read
\* yields the items it finds in the queue and ends when the queue is empty.
C39_QueueRead ==
    qsrc # <<>> =>
        /\ qsrc.put = qsrc.dequeued \o qsrc.queue
        /\ qsrc.block =>
            /\ qsrc.yielded = BeforePoison(qsrc.dequeued)
            /\ \A j \in 1 .. Len(qsrc.yielded) : qsrc.yielded[j] # Poison
            /\ (\E j \in 1 .. Len(qsrc.dequeued) : qsrc.dequeued[j] = Poison) =>
                /\ qsrc.pos = "ended"
                /\ qsrc.dequeued = Append(qsrc.yielded, Poison)
            /\ qsrc.pos = "ended" => qsrc.cause \in {"poison", "closed"}
        /\ ~qsrc.block =>
            /\ qsrc.yielded = qsrc.dequeued
            /\ (qsrc.pos = "get" /\ ~qsrc.closed) => qsrc.queue # <<>>
            /\ qsrc.pos = "ended" =>
                \/ qsrc.cause = "closed"
                \/ qsrc.cause = "empty" /\ qsrc.qsize = 0

C39_Witness ==
    /\ qsrc # <<>>
    /\ qsrc.block
    /\ qsrc.pos = "ended"
    /\ qsrc.cause = "poison"
    /\ Len(qsrc.yielded) >= 2
    /\ qsrc.queue # <<>>

C39_WitnessNonBlocking ==
    /\ qsrc # <<>>
    /\ ~qsrc.block
    /\ qsrc.pos = "ended"
    /\ qsrc.cause = "empty"
    /\ Len(qsrc.yielded) >= 2

\* ------------------------------------------------- claims on DiskSource

\* C40: every read() of a DiskSource yields all the lines of the file in
\* order, also when another read() or a with block is under way, and the
\* file handle is open exactly while the enter/exit count is above 0.
C40_EveryReadComplete ==
    dsrc # <<>> =>
        /\ \A r \in Readers :
            dsrc.rd[r].pos = "ended" => dsrc.rd[r].yielded = StripAll(dsrc.lines)
        /\ dsrc.file # None <=> dsrc.count > 0

\* one read at a time, outside a with block, of a file that exists
ReadAlone(r) ==
    /\ dsrc.exists
    /\ dsrc.with = "out"
    /\ \A q \in Readers \ {r} : dsrc.rd[q].pos = "new"

\* a read on its own yields all the lines, and a file that opens has its
\* handle open exactly while the count is above 0
ReadAloneComplete ==
    dsrc # <<>> =>
        /\ \A r \in Readers :
            (ReadAlone(r) /\ dsrc.rd[r].pos = "ended") =>
                dsrc.rd[r].yielded = StripAll(dsrc.lines)
        /\ dsrc.exists => (dsrc.file # None <=> dsrc.count > 0)

\* --------------------------------------- claims on the multiprocess runner

\* C33: when the filter raises on a work item inside a worker, the runner
\* logs a record holding "Unexpected exception:" for it, the other items
\* are still processed, the run ends, and every record of the log of such a
\* run is an "Unexpected exception:" record.
C33_ExceptionLogged ==
    mpr # <<>> =>
        /\ \A j \in 1 .. Len(mpr.log) :
            /\ mpr.log[j].text = "Unexpected exception:"
            /\ mpr.log[j].item \in mpr.raises
        /\ \A i \in mpr.done \cap mpr.raises :
            Cardinality({ j \in 1 .. Len(mpr.log) : mpr.log[j].item = i }) = 1
        /\ mpr.finished => mpr.done = WorkItems /\ mpr.out = WorkItems \ mpr.raises
        /\ ~mpr.finished => ENABLED RunNext

C33_Witness ==
    /\ mpr # <<>>
    /\ mpr.finished
    /\ mpr.raises = WorkItems
    /\ Len(mpr.log) = MaxWork

====
